---- MODULE Spec2Model ----
(***************************************************************************)
(* Address clustering, suspicion-flag propagation, balance aggregation and *)
(* suspicion heuristics:                                                   *)
(*   tools/clustering.py         GraphClusterer (union-find, clustering)   *)
(*   agents/correlation_agent.py CorrelationAgent.correlate                *)
(*   tools/transfer_heuristics.py mint-aware TransferHeuristics (Decimal)  *)
(*   tools/heuristics.py         TransferHeuristics on float totals        *)
(*   tools/transaction_parser.py TransactionParser.extract_transfers       *)
(*   src/dex_sniper              SniperStrategy, DexSniperAgent.fetch_quotes*)
(* In the clustering specifications the stats are values on which float    *)
(* and exact arithmetic agree: a threshold is a number of hundredths and a *)
(* score a fraction num/den of ten-thousandths.  Where rounding matters    *)
(* floats are binary floating point with a MantissaBits-bit mantissa.      *)
(***************************************************************************)
EXTENDS Integers, Sequences, FiniteSets, TLC

\* ---------------------------------------------------------------- bounds
AddrName == <<"A", "B", "C", "D", "E", "F">>

\* number of addresses the union-find specification works on
NumAddr == 4

\* longest input flag list handed to correlate
MaxFlags == 2

Addr == {AddrName[i] : i \in 1..NumAddr}

\* addresses that occur in the balances handed to correlate
Wallets == {"A", "B", "C"}

\* similarity thresholds in hundredths: GraphClusterer's default 0.5 and
\* CorrelationAgent's default 0.55
Thresholds == {50, 55}

VARIABLES
    parent,      \* GraphClusterer.parent : dict address -> address
    size,        \* GraphClusterer.size   : dict address -> int
    threshold,   \* GraphClusterer.threshold, in hundredths
    linked,      \* history: the partition generated by the unions made so far
    pc,          \* "idle", or "returned" right after a correlate call
    fresh_call,  \* pc = "returned" and the call found the clusterer empty
    balances,    \* argument of the last correlate call
    flags,       \* argument of the last correlate call
    clusters,    \* CorrelationResult.clusters of the last call
    result_flags,\* CorrelationResult.flags of the last call
    call,        \* the last find / union call on the clusterer and what it found
    arg,         \* arguments a function is applied to
    ret,         \* what the function returned
    transfers,   \* the transfers folded so far by both aggregate_balances
    round_trip_ratio, \* transfer_heuristics.py self.round_trip_ratio, hundredths
    hub_threshold,    \* transfer_heuristics.py self.hub_threshold
    aggregates,  \* transfer_heuristics.py aggregate_balances: its buckets
    sent,        \* heuristics.py aggregate_balances: sent
    received,    \* heuristics.py aggregate_balances: received
    peers,       \* heuristics.py aggregate_balances: peers
    report,      \* the SuspiciousReport of transfer_heuristics.py
    stat_flags,  \* the flag list of heuristics.py flag_suspicious_patterns
    constructed, \* the objects whose constructor has returned
    mint_decimals, \* TransactionParser.mint_decimals : dict mint -> decimals
    mint_lookup, \* TransactionParser.mint_lookup: what its k-th call returns
    lookup_calls,\* history: the calls of mint_lookup made so far
    extracts,    \* history: the number of extract_transfers calls so far
    extracted,   \* the outcome of the last extract_transfers call
    strategy_config, \* SniperStrategy.config : StrategyConfig
    reference_price, \* SniperStrategy.state.reference_price, in hundredths
    decision     \* the last evaluate call: its quotes and its SniperDecision

\* the state of the clusterer and of the agent that owns it
clusterer_vars ==
    <<parent, size, threshold, linked, pc, fresh_call, balances, flags, clusters,
      result_flags, call>>

\* arguments and result of a function applied on its own
pure_vars == <<arg, ret>>

\* the two balance aggregators and their suspicion flags
agg_vars ==
    <<transfers, round_trip_ratio, hub_threshold, aggregates, sent, received, peers,
      report, stat_flags>>

\* the state the clusterer and the aggregators never touch
parser_vars == <<mint_decimals, mint_lookup, lookup_calls, extracts, extracted>>

\* the state of the sniper strategy
sniper_vars == <<strategy_config, reference_price, decision>>

rest_vars == <<constructed, parser_vars, sniper_vars>>

\* the state no clusterer or agent operation touches
aux_vars == <<pure_vars, agg_vars, rest_vars>>

vars == <<clusterer_vars, aux_vars>>

NoCall == [op |-> "none"]

NoValue == [kind |-> "none"]

\* ------------------------------------------------------------ union-find
Empty == [x \in {} |-> x]

\* the while loop of find: repoint to the grandparent, step to it
RECURSIVE FindLoop(_, _)
FindLoop(p, addr) ==
    IF addr = p[addr]
    THEN [parent |-> p, root |-> addr]
    ELSE LET p2 == [p EXCEPT ![addr] = p[p[addr]]]
         IN  FindLoop(p2, p2[addr])

\* GraphClusterer.find: lazy registration, then path halving
find(p, s, addr) ==
    IF addr \notin DOMAIN p
    THEN [parent |-> p @@ (addr :> addr), size |-> s @@ (addr :> 1), root |-> addr]
    ELSE LET r == FindLoop(p, addr)
         IN  [parent |-> r.parent, size |-> s, root |-> r.root]

\* a plausible slip: the second argument itself, not its root, is repointed
union_repoints_argument(p, s, a, b) ==
    LET fa == find(p, s, a)
        fb == find(fa.parent, fa.size, b)
    IN  IF fa.root = fb.root
        THEN [parent |-> fb.parent, size |-> fb.size]
        ELSE [parent |-> [fb.parent EXCEPT ![b] = fa.root],
              size   |-> [fb.size EXCEPT ![fa.root] = @ + fb.size[fb.root]]]

\* a plausible slip: the size of the repointed set is not added
union_size_not_added(p, s, a, b) ==
    LET fa == find(p, s, a)
        fb == find(fa.parent, fa.size, b)
        swap == fb.size[fa.root] < fb.size[fb.root]
        root_a == IF swap THEN fb.root ELSE fa.root
        root_b == IF swap THEN fa.root ELSE fb.root
    IN  IF fa.root = fb.root
        THEN [parent |-> fb.parent, size |-> fb.size]
        ELSE [parent |-> [fb.parent EXCEPT ![root_b] = root_a], size |-> fb.size]

\* a plausible slip: <= for <, so the second argument's root wins a tie
union_second_wins_tie(p, s, a, b) ==
    LET fa == find(p, s, a)
        fb == find(fa.parent, fa.size, b)
        swap == fb.size[fa.root] <= fb.size[fb.root]
        root_a == IF swap THEN fb.root ELSE fa.root
        root_b == IF swap THEN fa.root ELSE fb.root
    IN  IF fa.root = fb.root
        THEN [parent |-> fb.parent, size |-> fb.size]
        ELSE [parent |-> [fb.parent EXCEPT ![root_b] = root_a],
              size   |-> [fb.size EXCEPT ![root_a] = @ + fb.size[root_b]]]

\* GraphClusterer.union: union by size, first argument's root wins a tie
union(p, s, a, b) ==
    LET fa == find(p, s, a)
        fb == find(fa.parent, fa.size, b)
        swap == fb.size[fa.root] < fb.size[fb.root]
        root_a == IF swap THEN fb.root ELSE fa.root
        root_b == IF swap THEN fa.root ELSE fb.root
    IN  IF fa.root = fb.root
        THEN [parent |-> fb.parent, size |-> fb.size]
        ELSE [parent |-> [fb.parent EXCEPT ![root_b] = root_a],
              size   |-> [fb.size EXCEPT ![root_a] = @ + fb.size[root_b]]]

\* the block of address a in a partition (a itself when never referenced)
BlockOf(part, a) ==
    IF \E blk \in part : a \in blk THEN CHOOSE blk \in part : a \in blk ELSE {a}

\* the partition after one more union of a and b
Link(part, a, b) ==
    (part \ {BlockOf(part, a), BlockOf(part, b)})
        \cup {BlockOf(part, a) \cup BlockOf(part, b)}

\* what find(x) would return in the current state
Root(x) == find(parent, size, x).root

\* ------------------------------------------------------------ clustering
Abs(x) == IF x < 0 THEN 0 - x ELSE x

Min(x, y) == IF x < y THEN x ELSE y

\* GraphClusterer._similarity as the fraction num/den; a zero total takes the
\* epsilon denominator, where both gaps are zero and the value is 1.0
similarity(a, b) ==
    LET sent_gap == Abs(a.sent - b.sent)
        recv_gap == Abs(a.received - b.received)
        total == a.sent + b.sent + a.received + b.received
        denom == IF total > 0 THEN total ELSE 1
    IN  [num |-> denom - (sent_gap + recv_gap), den |-> denom]

\* a plausible slip: strict comparison with the threshold
MeetsThresholdStrict(sim, t) == sim.num * 100 > t * sim.den

\* sim >= self.threshold, the threshold t in hundredths
MeetsThreshold(sim, t) == sim.num * 100 >= t * sim.den

\* a plausible slip: the net flow where the code adds sent and received
score_net_flow(stats) ==
    6 * Min(Abs(stats.sent - stats.received), 1000)
        + 40 * Min(stats.unique_counterparties, 100)

\* GraphClusterer._score in ten-thousandths:
\* 0.6 * min((sent + received) / 1000, 1) + 0.4 * min(counterparties / 100, 1)
score(stats) ==
    6 * Min(stats.sent + stats.received, 1000)
        + 40 * Min(stats.unique_counterparties, 100)

\* keys of by_addr in insertion order: first occurrence of each address
RECURSIVE KeysOf(_, _)
KeysOf(stats, k) ==
    IF k > Len(stats) THEN <<>>
    ELSE IF \E h \in 1..(k - 1) : stats[h].address = stats[k].address
         THEN KeysOf(stats, k + 1)
         ELSE <<stats[k].address>> \o KeysOf(stats, k + 1)

\* by_addr[a]: the last record of address a wins
ByAddr(stats, a) ==
    LET last == CHOOSE k \in 1..Len(stats) :
                    /\ stats[k].address = a
                    /\ \A h \in (k + 1)..Len(stats) : stats[h].address # a
    IN  stats[last]

\* the nested loops over addresses[i] and addresses[i + 1 :]
RECURSIVE PairLoop(_, _, _, _, _, _)
PairLoop(st, stats, addresses, t, i, j) ==
    IF i > Len(addresses) THEN st
    ELSE IF j > Len(addresses) THEN PairLoop(st, stats, addresses, t, i + 1, i + 2)
    ELSE LET sim == similarity(ByAddr(stats, addresses[i]), ByAddr(stats, addresses[j]))
             st2 == IF MeetsThreshold(sim, t)
                    THEN union(st.parent, st.size, addresses[i], addresses[j])
                    ELSE st
         IN  PairLoop(st2, stats, addresses, t, i, j + 1)

\* a plausible slip: every bucket is the same set object, as with
\* dict.fromkeys(roots, set())
AddToBucket_shared_set(buckets, root, addr) ==
    LET bs == IF \E k \in 1..Len(buckets) : buckets[k].root = root
              THEN buckets
              ELSE Append(buckets, [root |-> root, members |-> {}])
        shared == UNION {buckets[k].members : k \in 1..Len(buckets)} \cup {addr}
    IN  [k \in 1..Len(bs) |-> [bs[k] EXCEPT !.members = shared]]

\* buckets[self.find(addr)].add(addr); a dict keeps its keys in insertion order
AddToBucket(buckets, root, addr) ==
    IF \E k \in 1..Len(buckets) : buckets[k].root = root
    THEN [k \in 1..Len(buckets) |->
             IF buckets[k].root = root
             THEN [buckets[k] EXCEPT !.members = @ \cup {addr}]
             ELSE buckets[k]]
    ELSE Append(buckets, [root |-> root, members |-> {addr}])

RECURSIVE BucketLoop(_, _, _, _)
BucketLoop(st, addresses, k, buckets) ==
    IF k > Len(addresses) THEN [parent |-> st.parent, size |-> st.size, buckets |-> buckets]
    ELSE LET f == find(st.parent, st.size, addresses[k])
         IN  BucketLoop([parent |-> f.parent, size |-> f.size], addresses, k + 1,
                        AddToBucket(buckets, f.root, addresses[k]))

RECURSIVE SumScore(_, _)
SumScore(stats, members) ==
    IF members = {} THEN 0
    ELSE LET m == CHOOSE x \in members : TRUE
         IN  score(ByAddr(stats, m)) + SumScore(stats, members \ {m})

\* AddressCluster(members, score): the score is sum / len(members)
AddressCluster(stats, members) ==
    [members |-> members,
     score |-> [num |-> SumScore(stats, members), den |-> Cardinality(members)]]

\* c.score < d.score on the fractions
ScoreLess(c, d) == c.score.num * d.score.den < d.score.num * c.score.den

\* a plausible slip: reverse=True left out, the sort is ascending
RECURSIVE InsertByScore_ascending(_, _)
InsertByScore_ascending(sorted, c) ==
    IF sorted = <<>> THEN <<c>>
    ELSE IF ScoreLess(c, Head(sorted)) THEN <<c>> \o sorted
    ELSE <<Head(sorted)>> \o InsertByScore_ascending(Tail(sorted), c)

\* one step of the stable sort: c goes behind every cluster whose score is
\* not lower than its own
RECURSIVE InsertByScore(_, _)
InsertByScore(sorted, c) ==
    IF sorted = <<>> THEN <<c>>
    ELSE IF ScoreLess(Head(sorted), c) THEN <<c>> \o sorted
    ELSE <<Head(sorted)>> \o InsertByScore(Tail(sorted), c)

\* sorted(clusters, key=lambda c: c.score, reverse=True): stable
RECURSIVE SortedByScore(_, _)
SortedByScore(cs, k) ==
    IF k = 0 THEN <<>>
    ELSE InsertByScore(SortedByScore(cs, k - 1), cs[k])

\* a plausible variant: groups of size 1 are dropped from the result
cluster_by_flow_similarity_multi_only(p, s, t, stats) ==
    LET addresses == KeysOf(stats, 1)
        unioned == PairLoop([parent |-> p, size |-> s], stats, addresses, t, 1, 2)
        grouped == BucketLoop(unioned, addresses, 1, <<>>)
        cs == [k \in 1..Len(grouped.buckets) |->
                  AddressCluster(stats, grouped.buckets[k].members)]
        multi(c) == Cardinality(c.members) >= 2
    IN  [parent |-> grouped.parent, size |-> grouped.size,
         clusters |-> SortedByScore(SelectSeq(cs, multi), Len(SelectSeq(cs, multi)))]

\* GraphClusterer.cluster_by_flow_similarity on the clusterer state (p, s)
cluster_by_flow_similarity(p, s, t, stats) ==
    LET addresses == KeysOf(stats, 1)
        unioned == PairLoop([parent |-> p, size |-> s], stats, addresses, t, 1, 2)
        grouped == BucketLoop(unioned, addresses, 1, <<>>)
        cs == [k \in 1..Len(grouped.buckets) |->
                  AddressCluster(stats, grouped.buckets[k].members)]
    IN  [parent |-> grouped.parent, size |-> grouped.size,
         clusters |-> SortedByScore(cs, Len(cs))]

\* ----------------------------------------------------------- propagation
ProximityReason == "Cluster proximity to flagged counterparties"

\* a plausible slip: the "addr not in suspicious_addresses" test left out
RECURSIVE MemberLoop_no_test(_, _, _, _)
MemberLoop_no_test(order, k, members, suspicious) ==
    IF k > Len(order) THEN <<>>
    ELSE IF order[k] \in members
         THEN <<[address |-> order[k], reason |-> ProximityReason]>>
                  \o MemberLoop_no_test(order, k + 1, members, suspicious)
         ELSE MemberLoop_no_test(order, k + 1, members, suspicious)

\* the inner loop: members of one cluster in the set's iteration order
RECURSIVE MemberLoop(_, _, _, _)
MemberLoop(order, k, members, suspicious) ==
    IF k > Len(order) THEN <<>>
    ELSE IF order[k] \in members /\ order[k] \notin suspicious
         THEN <<[address |-> order[k], reason |-> ProximityReason]>>
                  \o MemberLoop(order, k + 1, members, suspicious)
         ELSE MemberLoop(order, k + 1, members, suspicious)

\* the outer loop over the clusters
RECURSIVE ClusterLoop(_, _, _, _)
ClusterLoop(cs, k, suspicious, order) ==
    IF k > Len(cs) THEN <<>>
    ELSE (IF cs[k].members \cap suspicious # {}
          THEN MemberLoop(order, 1, cs[k].members, suspicious)
          ELSE <<>>)
         \o ClusterLoop(cs, k + 1, suspicious, order)

\* the input flags without repetitions, in first-occurrence order
RECURSIVE Deduplicated(_, _)
Deduplicated(fl, k) ==
    IF k > Len(fl) THEN <<>>
    ELSE IF \E h \in 1..(k - 1) : fl[h] = fl[k]
         THEN Deduplicated(fl, k + 1)
         ELSE <<fl[k]>> \o Deduplicated(fl, k + 1)

\* a plausible slip: the input flags are deduplicated before the append
propagate_deduplicated(cs, fl, order) ==
    LET suspicious_addresses == {fl[k].address : k \in 1..Len(fl)}
    IN  Deduplicated(fl, 1) \o ClusterLoop(cs, 1, suspicious_addresses, order)

\* lines 26-38 of correlate: the input flags, then the proximity flags
propagate(cs, fl, order) ==
    LET suspicious_addresses == {fl[k].address : k \in 1..Len(fl)}
        propagated_flags == fl \o ClusterLoop(cs, 1, suspicious_addresses, order)
    IN  propagated_flags

\* CorrelationAgent.correlate on the clusterer state (p, s); order is the
\* order in which this run iterates a set of addresses
correlate(p, s, t, bal, fl, order) ==
    LET c == cluster_by_flow_similarity(p, s, t, bal)
    IN  [parent |-> c.parent, size |-> c.size,
         clusters |-> c.clusters, flags |-> propagate(c.clusters, fl, order)]

\* ---------------------------------------------------------------- inputs
\* flow profiles (received, sent, counterparties); on these values the float
\* comparisons of the code agree with the exact comparisons made here
StatProfiles ==
    { [received |-> 0,  sent |-> 40, unique_counterparties |-> 1],
      [received |-> 20, sent |-> 20, unique_counterparties |-> 3],
      [received |-> 40, sent |-> 0,  unique_counterparties |-> 1] }

AddressStats ==
    { [address |-> a, received |-> q.received, sent |-> q.sent,
       unique_counterparties |-> q.unique_counterparties] :
          a \in Wallets, q \in StatProfiles }

\* balances come from a dict: one record per address
BalanceLists ==
    { b \in UNION {[1..n -> AddressStats] : n \in 0..Cardinality(Wallets)} :
          \A i, j \in 1..Len(b) : i # j => b[i].address # b[j].address }

InputReasons == {"High-degree hub behavior across many counterparties"}

SuspicionFlag == [address : Wallets, reason : InputReasons]

FlagLists == UNION {[1..n -> SuspicionFlag] : n \in 0..MaxFlags}

\* the orders in which a run may iterate a set of addresses
IterationOrders ==
    { o \in [1..Cardinality(Wallets) -> Wallets] :
          \A i, j \in 1..Cardinality(Wallets) : i # j => o[i] # o[j] }

\* the partition after the unions of one clustering call
RECURSIVE LinkAll(_, _)
LinkAll(part, pairs) ==
    IF pairs = {} THEN part
    ELSE LET pr == CHOOSE x \in pairs : TRUE
         IN  LinkAll(Link(part, pr[1], pr[2]), pairs \ {pr})

Similar(bal, t, a, b) == MeetsThreshold(similarity(ByAddr(bal, a), ByAddr(bal, b)), t)

InputAddresses(bal) == {bal[k].address : k \in 1..Len(bal)}

UnionedPairs(bal, t) ==
    { pr \in InputAddresses(bal) \X InputAddresses(bal) :
          pr[1] = pr[2] \/ Similar(bal, t, pr[1], pr[2]) }

\* a newly constructed agent and clusterer
\* a dict: its keys in insertion order and the value of each key
EmptyDict == [keys |-> <<>>, val |-> Empty]

\* d.setdefault(k, v) as the dict it leaves behind
setdefault(d, k, v) ==
    IF k \in DOMAIN d.val THEN d
    ELSE [keys |-> Append(d.keys, k), val |-> d.val @@ (k :> v)]

\* d[k] = v
Put(d, k, v) ==
    IF k \in DOMAIN d.val THEN [d EXCEPT !.val[k] = v]
    ELSE [keys |-> Append(d.keys, k), val |-> d.val @@ (k :> v)]

\* the defaults of TransferHeuristics.__init__: round_trip_ratio in hundredths
DefaultRoundTripRatio == 80

DefaultHubThreshold == 6

\* the agent and the heuristics have been constructed, nothing else runs
ParserIdle ==
    /\ mint_decimals = Empty
    /\ mint_lookup = <<>>
    /\ lookup_calls = <<>>
    /\ extracts = 0
    /\ extracted = NoValue

\* StrategyConfig.min_out_amount = None
NoAmountFloor == 0 - 1

\* StrategyConfig(reference_price, min_improvement_bps, max_slippage_bps,
\* min_out_amount); a price is a number of hundredths
StrategyConfig(ref, min_improvement_bps, max_slippage_bps, min_out_amount) ==
    [reference_price |-> ref, min_improvement_bps |-> min_improvement_bps,
     max_slippage_bps |-> max_slippage_bps, min_out_amount |-> min_out_amount]

\* SniperStrategy(config): the reference price starts at the configured one
SniperStrategy_init(config) ==
    [config |-> config, reference_price |-> config.reference_price]

\* a strategy has been constructed, evaluate has not been called
SniperIdle ==
    LET s == SniperStrategy_init(StrategyConfig(100, 50, 100, NoAmountFloor))
    IN  /\ strategy_config = s.config
        /\ reference_price = s.reference_price
        /\ decision = NoValue

RestIdle == constructed = {"agent", "heuristics"} /\ ParserIdle /\ SniperIdle

\* no transfer folded, TransferHeuristics() with its defaults
AggIdle ==
    /\ transfers = <<>>
    /\ round_trip_ratio = DefaultRoundTripRatio
    /\ hub_threshold = DefaultHubThreshold
    /\ aggregates = EmptyDict
    /\ sent = Empty
    /\ received = Empty
    /\ peers = Empty
    /\ report = NoValue
    /\ stat_flags = NoValue

ClustererInit ==
    /\ parent = Empty
    /\ size = Empty
    /\ threshold \in Thresholds
    /\ linked = {}
    /\ pc = "idle"
    /\ fresh_call = FALSE
    /\ balances = <<>>
    /\ flags = <<>>
    /\ clusters = <<>>
    /\ result_flags = <<>>
    /\ call = NoCall

Init ==
    /\ ClustererInit
    /\ AggIdle
    /\ RestIdle
    /\ arg = NoValue
    /\ ret = NoValue

\* a client calls clusterer.find(a)
Find(a) ==
    /\ parent' = find(parent, size, a).parent
    /\ size' = find(parent, size, a).size
    /\ linked' = Link(linked, a, a)
    /\ call' = [op |-> "find", a |-> a, root |-> find(parent, size, a).root]
    /\ UNCHANGED <<threshold, pc, fresh_call, balances, flags, clusters, result_flags>>
    /\ UNCHANGED aux_vars

\* a client calls clusterer.union(a, b)
Union(a, b) ==
    /\ parent' = union(parent, size, a, b).parent
    /\ size' = union(parent, size, a, b).size
    /\ linked' = Link(linked, a, b)
    /\ call' = [op |-> "union", a |-> a, b |-> b,
                root_a |-> find(parent, size, a).root,
                root_b |-> find(parent, size, b).root]
    /\ UNCHANGED <<threshold, pc, fresh_call, balances, flags, clusters, result_flags>>
    /\ UNCHANGED aux_vars

\* a client calls agent.correlate(balances=bal, flags=fl, transfers=...)
Correlate(bal, fl) ==
    /\ pc = "idle"
    /\ LET c == cluster_by_flow_similarity(parent, size, threshold, bal)
       IN  /\ parent' = c.parent
           /\ size' = c.size
           /\ clusters' = c.clusters
           /\ result_flags' \in {propagate(c.clusters, fl, order) : order \in IterationOrders}
    /\ linked' = LinkAll(linked, UnionedPairs(bal, threshold))
    /\ fresh_call' = (parent = Empty)
    /\ balances' = bal
    /\ flags' = fl
    /\ pc' = "returned"
    /\ UNCHANGED <<threshold, call>>
    /\ UNCHANGED aux_vars

\* the caller has consumed the CorrelationResult; the agent lives on
Return ==
    /\ pc = "returned"
    /\ pc' = "idle"
    /\ balances' = <<>>
    /\ flags' = <<>>
    /\ clusters' = <<>>
    /\ result_flags' = <<>>
    /\ fresh_call' = FALSE
    /\ UNCHANGED <<parent, size, threshold, linked, call>>
    /\ UNCHANGED aux_vars

\* CorrelationAgent(similarity_threshold=t): a new agent with a new clusterer
Construct(t) ==
    /\ pc = "idle"
    /\ parent # Empty
    /\ parent' = Empty
    /\ size' = Empty
    /\ threshold' = t
    /\ linked' = {}
    /\ fresh_call' = FALSE
    /\ UNCHANGED <<pc, balances, flags, clusters, result_flags, call>>
    /\ UNCHANGED aux_vars

Next ==
    \/ \E bal \in BalanceLists, fl \in FlagLists : Correlate(bal, fl)
    \/ Return
    \/ \E t \in Thresholds : Construct(t)

Spec == Init /\ [][Next]_vars

NextUF ==
    \/ \E a \in Addr : Find(a)
    \/ \E a, b \in Addr : Union(a, b)

SpecUF == Init /\ [][NextUF]_vars

\* ------------------------------------------------- score of a raised member
\* flow statistics the raised address and its neighbours start from
MonoProfiles ==
    [received : {0, 40}, sent : {40, 990}, unique_counterparties : {1, 50}]

\* by how much sent or received is raised
MonoDeltas == {10, 90}

WalletSeq == <<"A", "B", "C">>

\* one record per wallet, in the order A, B, C
StatsOf(profiles) ==
    [k \in 1..Len(profiles) |->
        [address |-> WalletSeq[k], received |-> profiles[k].received,
         sent |-> profiles[k].sent,
         unique_counterparties |-> profiles[k].unique_counterparties]]

MonoInputs ==
    [kind : {"increase"},
     stats : {StatsOf(q) : q \in [1..Len(WalletSeq) -> MonoProfiles]},
     who : 1..Len(WalletSeq),
     field : {"sent", "received"},
     delta : MonoDeltas]

\* the stats with the sent or received total of one address raised
Raised(stats, who, field, delta) ==
    [stats EXCEPT ![who] =
        IF field = "sent" THEN [@ EXCEPT !.sent = @ + delta]
                          ELSE [@ EXCEPT !.received = @ + delta]]

InitMono ==
    /\ ClustererInit
    /\ AggIdle
    /\ RestIdle
    /\ arg \in MonoInputs
    /\ ret = NoValue

\* cluster_by_flow_similarity on the stats and, with a new clusterer, on the
\* stats with one total raised
ClusterRaised ==
    /\ arg.kind = "increase"
    /\ ret = NoValue
    /\ ret' = [kind |-> "increase",
               before |-> cluster_by_flow_similarity(Empty, Empty, threshold, arg.stats).clusters,
               after |-> cluster_by_flow_similarity(Empty, Empty, threshold,
                             Raised(arg.stats, arg.who, arg.field, arg.delta)).clusters]
    /\ UNCHANGED <<clusterer_vars, agg_vars, rest_vars, arg>>

NextMono == ClusterRaised

SpecMono == InitMono /\ [][NextMono]_vars

\* ------------------------------------------------- binary floating point
\* AddressStats.sent / received are floats.  A float is [neg, m, e] of value
\* (-1)^neg * m * 2^e with 2^(MantissaBits-1) <= m < 2^MantissaBits, or zero;
\* every operation rounds its exact result to nearest, ties to even, as IEEE
\* 754 does with 53 bits.
MantissaBits == 3

RECURSIVE Pow2(_)
Pow2(n) == IF n = 0 THEN 1 ELSE 2 * Pow2(n - 1)

FloatZero == [neg |-> FALSE, m |-> 0, e |-> 0]

\* the float nearest to num / den, num >= 0 and den > 0
RECURSIVE FloatRound(_, _, _)
FloatRound(num, den, e) ==
    IF num = 0 THEN FloatZero
    ELSE IF num >= Pow2(MantissaBits) * den THEN FloatRound(num, 2 * den, e + 1)
    ELSE IF num < Pow2(MantissaBits - 1) * den THEN FloatRound(2 * num, den, e - 1)
    ELSE LET m == num \div den
             r == num % den
             up == 2 * r > den \/ (2 * r = den /\ m % 2 = 1)
             m2 == IF up THEN m + 1 ELSE m
         IN  IF m2 = Pow2(MantissaBits)
             THEN [neg |-> FALSE, m |-> Pow2(MantissaBits - 1), e |-> e + 1]
             ELSE [neg |-> FALSE, m |-> m2, e |-> e]

\* numerator and denominator of the magnitude of a float
Num(x) == IF x.e >= 0 THEN x.m * Pow2(x.e) ELSE x.m

Den(x) == IF x.e >= 0 THEN 1 ELSE Pow2(0 - x.e)

\* float(n) of a small natural number
FloatOf(n) == FloatRound(n, 1, 0)

\* x + y of two non-negative floats
FloatAdd(x, y) == FloatRound(Num(x) * Den(y) + Num(y) * Den(x), Den(x) * Den(y), 0)

\* abs(x - y) of two non-negative floats
FloatAbsDiff(x, y) ==
    FloatRound(Abs(Num(x) * Den(y) - Num(y) * Den(x)), Den(x) * Den(y), 0)

\* the literal 1e-9, scaled with the mantissa to 2^-10: below every positive
\* total the inputs can produce
Epsilon == [neg |-> FALSE, m |-> Pow2(MantissaBits - 1), e |-> 0 - 9 - MantissaBits]

\* max(x, y) of two non-negative floats
FloatMax(x, y) == IF Num(x) * Den(y) >= Num(y) * Den(x) THEN x ELSE y

\* x / y of two non-negative floats; ZeroDivisionError when y is zero
FloatDiv(x, y) ==
    IF y.m = 0 THEN [raised |-> TRUE, value |-> FloatZero]
    ELSE [raised |-> FALSE, value |-> FloatRound(Num(x) * Den(y), Den(x) * Num(y), 0)]

\* 1.0 - x of a non-negative float
OneMinus(x) ==
    LET r == FloatRound(Abs(Den(x) - Num(x)), Den(x), 0)
    IN  [r EXCEPT !.neg = Num(x) > Den(x)]

\* GraphClusterer._similarity on floats, every operation in the order of the
\* source: ((a.sent + b.sent) + a.received) + b.received
similarity_float(a, b) ==
    LET sent_gap == FloatAbsDiff(a.sent, b.sent)
        recv_gap == FloatAbsDiff(a.received, b.received)
        denom == FloatMax(FloatAdd(FloatAdd(FloatAdd(a.sent, b.sent), a.received),
                                   b.received),
                          Epsilon)
        quotient == FloatDiv(FloatAdd(sent_gap, recv_gap), denom)
    IN  [raised |-> quotient.raised, value |-> OneMinus(quotient.value)]

\* the stats record with float totals
FloatStats(stats) ==
    [stats EXCEPT !.sent = FloatOf(@), !.received = FloatOf(@)]

\* x <= y of non-negative floats
FloatLeq(x, y) == Num(x) * Den(y) <= Num(y) * Den(x)

FloatPositive(x) == x.m > 0 /\ ~x.neg

\* ------------------------------------------------------ suspicion rules
NearSymmetricReason == "Near-symmetric inflow/outflow exceeding threshold"

HighDegreeReason == "High-degree hub behavior across many counterparties"

\* heuristics.py: the counterparty count an address must exceed
HubDegree == 50

\* heuristics.py: the default min_round_trip
MinRoundTrip == 10

Raise == [raised |-> TRUE, reasons |-> <<>>]

\* heuristics.py flag_suspicious_patterns, the body of the loop for one
\* AddressStats (float totals): the reasons appended for it, or the fault
NearSymmetric(stats, min_round_trip) ==
    IF FloatPositive(stats.sent) /\ FloatPositive(stats.received)
    THEN LET ratio == FloatDiv(stats.sent, FloatMax(stats.received, Epsilon))
         IN  IF ratio.raised THEN Raise
             ELSE IF /\ FloatLeq(FloatRound(8, 10, 0), ratio.value)
                     /\ FloatLeq(ratio.value, FloatRound(125, 100, 0))
                     /\ ~FloatLeq(stats.sent, min_round_trip)
                  THEN [raised |-> FALSE, reasons |-> <<NearSymmetricReason>>]
                  ELSE [raised |-> FALSE, reasons |-> <<>>]
    ELSE [raised |-> FALSE, reasons |-> <<>>]

\* if stats.unique_counterparties > 50 and stats.sent > 0
HighDegree(stats) ==
    IF stats.unique_counterparties > HubDegree /\ FloatPositive(stats.sent)
    THEN <<HighDegreeReason>> ELSE <<>>

stats_reasons(stats, min_round_trip) ==
    LET near == NearSymmetric(stats, min_round_trip)
    IN  IF near.raised THEN Raise
        ELSE [raised |-> FALSE, reasons |-> near.reasons \o HighDegree(stats)]

\* transfer_heuristics.py: Decimal division, DivisionByZero / InvalidOperation
\* on a zero divisor
DecimalDiv(x, y) ==
    IF y = 0 THEN [raised |-> TRUE, num |-> 0, den |-> 1]
    ELSE [raised |-> FALSE, num |-> x, den |-> y]

\* metrics.sent / metrics.received >= round_trip_ratio, evaluated unguarded
RoundTrip_unguarded(metrics, ratio) ==
    LET q == DecimalDiv(metrics.sent, metrics.received)
    IN  [raised |-> q.raised,
         holds |-> ~q.raised /\ q.num * 100 >= ratio * q.den]

\* a plausible slip: > for >=
RoundTrip_strict(metrics, ratio) ==
    IF metrics.received > 0
    THEN LET q == DecimalDiv(metrics.sent, metrics.received)
         IN  [raised |-> q.raised,
              holds |-> ~q.raised /\ q.num * 100 > ratio * q.den]
    ELSE [raised |-> FALSE, holds |-> FALSE]

\* metrics.received > 0 and metrics.sent / metrics.received >= round_trip_ratio
RoundTrip(metrics, ratio) ==
    IF metrics.received > 0
    THEN LET q == DecimalDiv(metrics.sent, metrics.received)
         IN  [raised |-> q.raised,
              holds |-> ~q.raised /\ q.num * 100 >= ratio * q.den]
    ELSE [raised |-> FALSE, holds |-> FALSE]

\* transfer_heuristics.py flag_suspicious_patterns, the body of the inner loop
\* for one BalanceAggregate: its reasons list, or the fault
metrics_reasons(metrics, ratio, hub) ==
    LET rt == RoundTrip(metrics, ratio)
    IN  IF rt.raised THEN Raise
        ELSE [raised |-> FALSE,
              reasons |-> (IF rt.holds THEN <<"round_trip_flow">> ELSE <<>>)
                          \o (IF Cardinality(metrics.peers) >= hub
                              THEN <<"hub_like_behavior">> ELSE <<>>)]

\* ------------------------------------- pure functions on one pair of stats
StatVals == {0, 1, 2, 4, 5, 7, 12}

HubCounts == {0, HubDegree - 1, HubDegree, HubDegree + 1}

PairInputs ==
    {[kind |-> "pair",
      a |-> [address |-> "A", received |-> ar, sent |-> as,
             unique_counterparties |-> uc],
      b |-> [address |-> "B", received |-> br, sent |-> bs,
             unique_counterparties |-> 1]] :
        ar \in StatVals, as \in StatVals, br \in StatVals, bs \in StatVals,
        uc \in HubCounts}

\* the BalanceAggregate of one mint carrying the totals of stats
MetricsOf(stats) ==
    [sent |-> stats.sent, received |-> stats.received,
     peers |-> IF stats.unique_counterparties = 0 THEN {} ELSE {"B"}]

InitRules == ClustererInit /\ AggIdle /\ RestIdle /\ arg \in PairInputs /\ ret = NoValue

ApplySimilarity ==
    /\ ret = NoValue
    /\ ret' = [kind |-> "similarity",
               ab |-> similarity_float(FloatStats(arg.a), FloatStats(arg.b)),
               ba |-> similarity_float(FloatStats(arg.b), FloatStats(arg.a))]
    /\ UNCHANGED <<clusterer_vars, agg_vars, rest_vars, arg>>

ApplyStatsRule ==
    /\ ret = NoValue
    /\ ret' = [kind |-> "stats_rule",
               out |-> stats_reasons(FloatStats(arg.a), FloatOf(MinRoundTrip))]
    /\ UNCHANGED <<clusterer_vars, agg_vars, rest_vars, arg>>

ApplyMetricsRule ==
    /\ ret = NoValue
    /\ ret' = [kind |-> "metrics_rule",
               out |-> metrics_reasons(MetricsOf(arg.a), DefaultRoundTripRatio,
                                       DefaultHubThreshold)]
    /\ UNCHANGED <<clusterer_vars, agg_vars, rest_vars, arg>>

NextRules == ApplySimilarity \/ ApplyStatsRule \/ ApplyMetricsRule

SpecRules == InitRules /\ [][NextRules]_vars

\* ------------------------------------------------------ balance aggregation
\* most transfers one aggregation folds
MaxTransfers == 3

\* TokenTransfer: source, destination, amount, mint.  The pool has the chain
\* X -> Y -> Z of one mint, a transfer back, self-transfers, a zero amount
\* and a second mint.
TransferPool ==
    {[source |-> "X", destination |-> "Y", amount |-> 100, mint |-> "mintA"],
     [source |-> "Y", destination |-> "Z", amount |-> 95, mint |-> "mintA"],
     [source |-> "Y", destination |-> "X", amount |-> 50, mint |-> "mintA"],
     [source |-> "Z", destination |-> "Z", amount |-> 5, mint |-> "mintA"],
     [source |-> "X", destination |-> "Y", amount |-> 0, mint |-> "mintB"],
     [source |-> "Y", destination |-> "X", amount |-> 7, mint |-> "mintB"],
     [source |-> "Z", destination |-> "Y", amount |-> 12, mint |-> "mintB"],
     [source |-> "Z", destination |-> "Z", amount |-> 3, mint |-> "mintB"]}

\* the configurations TransferHeuristics is constructed with
RoundTripRatios == {DefaultRoundTripRatio, 100}

HubThresholds == {2, DefaultHubThreshold}

\* BalanceAggregate()
NewBalanceAggregate == [sent |-> 0, received |-> 0, peers |-> {}]

\* a plausible slip: = for +=, the totals keep only the last amount
FoldTransfer_overwrites(b, transfer) ==
    LET b1 == setdefault(b, transfer.mint, EmptyDict)
        m1 == setdefault(b1.val[transfer.mint], transfer.source, NewBalanceAggregate)
        m2 == [m1 EXCEPT !.val[transfer.source].sent = transfer.amount,
                         !.val[transfer.source].peers = @ \cup {transfer.destination}]
        m3 == setdefault(m2, transfer.destination, NewBalanceAggregate)
        m4 == [m3 EXCEPT !.val[transfer.destination].received = transfer.amount,
                         !.val[transfer.destination].peers = @ \cup {transfer.source}]
    IN  [b1 EXCEPT !.val[transfer.mint] = m4]

\* a plausible slip: the receiver's peer set is left alone
FoldTransfer_no_receiver_peer(b, transfer) ==
    LET b1 == setdefault(b, transfer.mint, EmptyDict)
        m1 == setdefault(b1.val[transfer.mint], transfer.source, NewBalanceAggregate)
        m2 == [m1 EXCEPT !.val[transfer.source].sent = @ + transfer.amount,
                         !.val[transfer.source].peers = @ \cup {transfer.destination}]
        m3 == setdefault(m2, transfer.destination, NewBalanceAggregate)
        m4 == [m3 EXCEPT !.val[transfer.destination].received = @ + transfer.amount]
    IN  [b1 EXCEPT !.val[transfer.mint] = m4]

\* transfer_heuristics.py aggregate_balances, the body of its loop
FoldTransfer(b, transfer) ==
    LET b1 == setdefault(b, transfer.mint, EmptyDict)
        m1 == setdefault(b1.val[transfer.mint], transfer.source, NewBalanceAggregate)
        m2 == [m1 EXCEPT !.val[transfer.source].sent = @ + transfer.amount,
                         !.val[transfer.source].peers = @ \cup {transfer.destination}]
        m3 == setdefault(m2, transfer.destination, NewBalanceAggregate)
        m4 == [m3 EXCEPT !.val[transfer.destination].received = @ + transfer.amount,
                         !.val[transfer.destination].peers = @ \cup {transfer.source}]
    IN  [b1 EXCEPT !.val[transfer.mint] = m4]

RECURSIVE AggregateLoop(_, _, _)
AggregateLoop(b, ts, i) ==
    IF i > Len(ts) THEN b ELSE AggregateLoop(FoldTransfer(b, ts[i]), ts, i + 1)

\* transfer_heuristics.py aggregate_balances(transfers)
aggregate_balances(ts) == AggregateLoop(EmptyDict, ts, 1)

\* a plausible slip: = for +=
AddAmount_overwrites(d, k, amount) ==
    IF k \in DOMAIN d THEN [d EXCEPT ![k] = amount] ELSE d @@ (k :> amount)

\* heuristics.py: d[k] += amount on a defaultdict(float)
AddAmount(d, k, amount) ==
    IF k \in DOMAIN d THEN [d EXCEPT ![k] = FloatAdd(@, amount)]
    ELSE d @@ (k :> FloatAdd(FloatZero, amount))

\* heuristics.py: d[k].add(peer) on a defaultdict(set)
AddPeer(d, k, peer) ==
    IF k \in DOMAIN d THEN [d EXCEPT ![k] = @ \cup {peer}] ELSE d @@ (k :> {peer})

\* heuristics.py aggregate_balances, the body of its loop on the three dicts;
\* the amount of its TokenTransfer is a float
FoldStats(d, transfer) ==
    [sent |-> AddAmount(d.sent, transfer.source, FloatOf(transfer.amount)),
     received |-> AddAmount(d.received, transfer.destination, FloatOf(transfer.amount)),
     peers |-> AddPeer(AddPeer(d.peers, transfer.source, transfer.destination),
                       transfer.destination, transfer.source)]

\* heuristics.py aggregate_balances, the dict it returns from the three dicts
balance_map(d) ==
    [addr \in DOMAIN d.sent \cup DOMAIN d.received |->
        [address |-> addr,
         received |-> IF addr \in DOMAIN d.received THEN d.received[addr] ELSE FloatZero,
         sent |-> IF addr \in DOMAIN d.sent THEN d.sent[addr] ELSE FloatZero,
         unique_counterparties |->
             Cardinality(IF addr \in DOMAIN d.peers THEN d.peers[addr] ELSE {})]]

RECURSIVE StatsLoop(_, _, _)
StatsLoop(d, ts, i) ==
    IF i > Len(ts) THEN d ELSE StatsLoop(FoldStats(d, ts[i]), ts, i + 1)

\* heuristics.py aggregate_balances(transfers)
aggregate_stats(ts) ==
    balance_map(StatsLoop([sent |-> Empty, received |-> Empty, peers |-> Empty], ts, 1))

\* the orders in which the elements of a set can be iterated
OrdersOf(S) ==
    {o \in [1..Cardinality(S) -> S] : \A i, j \in DOMAIN o : i # j => o[i] # o[j]}

\* heuristics.py flag_suspicious_patterns: the loop over balance_map.values()
RECURSIVE StatFlagLoop(_, _, _, _)
StatFlagLoop(bm, order, i, min_round_trip) ==
    IF i > Len(order) THEN [kind |-> "flags", raised |-> FALSE, flags |-> <<>>]
    ELSE LET r == stats_reasons(bm[order[i]], min_round_trip)
             rest == StatFlagLoop(bm, order, i + 1, min_round_trip)
         IN  IF r.raised \/ rest.raised
             THEN [kind |-> "flags", raised |-> TRUE, flags |-> <<>>]
             ELSE [kind |-> "flags", raised |-> FALSE,
                   flags |-> [k \in 1..Len(r.reasons) |->
                                 [address |-> order[i], reason |-> r.reasons[k]]]
                             \o rest.flags]

\* a plausible slip: the list is assigned, not extended
ExtendCross_assigns(cross_mint, address, mint, reasons) ==
    Put(cross_mint, address, [k \in 1..Len(reasons) |-> mint \o ":" \o reasons[k]])

\* cross_mint.setdefault(address, []).extend(f"{mint}:{reason}" ...)
ExtendCross(cross_mint, address, mint, reasons) ==
    LET c == setdefault(cross_mint, address, <<>>)
    IN  [c EXCEPT !.val[address] =
            @ \o [k \in 1..Len(reasons) |-> mint \o ":" \o reasons[k]]]

\* transfer_heuristics.py flag_suspicious_patterns: the loop over the
\* addresses of one mint; acc carries mint_flags and cross_mint
RECURSIVE AddressLoop(_, _, _, _, _, _)
AddressLoop(mint, address_map, i, acc, ratio, hub) ==
    IF i > Len(address_map.keys) \/ acc.raised THEN acc
    ELSE LET address == address_map.keys[i]
             r == metrics_reasons(address_map.val[address], ratio, hub)
             next == IF r.raised THEN [acc EXCEPT !.raised = TRUE]
                     ELSE IF r.reasons = <<>> THEN acc
                     ELSE [raised |-> FALSE,
                           mint_flags |-> Put(acc.mint_flags, address, r.reasons),
                           cross_mint |-> ExtendCross(acc.cross_mint, address, mint,
                                                      r.reasons)]
         IN  AddressLoop(mint, address_map, i + 1, next, ratio, hub)

\* the loop over the mints; rep carries by_mint and cross_mint
RECURSIVE MintLoop(_, _, _, _, _)
MintLoop(aggs, j, rep, ratio, hub) ==
    IF j > Len(aggs.keys) \/ rep.raised THEN rep
    ELSE LET mint == aggs.keys[j]
             acc == AddressLoop(mint, aggs.val[mint], 1,
                                [raised |-> FALSE, mint_flags |-> EmptyDict,
                                 cross_mint |-> rep.cross_mint], ratio, hub)
             next == [kind |-> "report",
                      raised |-> acc.raised,
                      by_mint |-> IF acc.mint_flags.keys # <<>>
                                  THEN Put(rep.by_mint, mint, acc.mint_flags)
                                  ELSE rep.by_mint,
                      cross_mint |-> acc.cross_mint]
         IN  MintLoop(aggs, j + 1, next, ratio, hub)

\* transfer_heuristics.py flag_suspicious_patterns(aggregates)
flag_suspicious_patterns(aggs, ratio, hub) ==
    MintLoop(aggs, 1, [kind |-> "report", raised |-> FALSE, by_mint |-> EmptyDict,
                       cross_mint |-> EmptyDict], ratio, hub)

\* TransferHeuristics(round_trip_ratio, hub_threshold), nothing folded yet
InitAgg ==
    /\ ClustererInit
    /\ RestIdle
    /\ arg = NoValue
    /\ ret = NoValue
    /\ transfers = <<>>
    /\ round_trip_ratio \in RoundTripRatios
    /\ hub_threshold \in HubThresholds
    /\ aggregates = EmptyDict
    /\ sent = Empty
    /\ received = Empty
    /\ peers = Empty
    /\ report = NoValue
    /\ stat_flags = NoValue

\* both aggregate_balances loops fold the next transfer
Fold(transfer) ==
    /\ report = NoValue
    /\ Len(transfers) < MaxTransfers
    /\ transfers' = Append(transfers, transfer)
    /\ aggregates' = FoldTransfer(aggregates, transfer)
    /\ LET d == FoldStats([sent |-> sent, received |-> received, peers |-> peers],
                          transfer)
       IN  sent' = d.sent /\ received' = d.received /\ peers' = d.peers
    /\ UNCHANGED <<round_trip_ratio, hub_threshold, report, stat_flags>>
    /\ UNCHANGED <<clusterer_vars, pure_vars, rest_vars>>

\* flag_suspicious_patterns of both implementations on what was folded;
\* heuristics.py iterates a dict built from a set of addresses
Flag ==
    /\ report = NoValue
    /\ report' = flag_suspicious_patterns(aggregates, round_trip_ratio, hub_threshold)
    /\ LET bm == aggregate_stats(transfers)
       IN  stat_flags' \in {StatFlagLoop(bm, order, 1, FloatOf(MinRoundTrip)) :
                               order \in OrdersOf(DOMAIN bm)}
    /\ UNCHANGED <<transfers, round_trip_ratio, hub_threshold, aggregates, sent,
                   received, peers>>
    /\ UNCHANGED <<clusterer_vars, pure_vars, rest_vars>>

NextAgg == (\E transfer \in TransferPool : Fold(transfer)) \/ Flag

SpecAgg == InitAgg /\ [][NextAgg]_vars

\* ------------------------------------------------------------ construction
\* the values a caller may hand to the constructors, invalid ones included:
\* round_trip_ratio and similarity_threshold in hundredths
ConfigRatios == {0 - 50, DefaultRoundTripRatio}

ConfigThresholds == {0 - 10, 55}

\* TransferHeuristics.__init__: the two assignments, no check
TransferHeuristics_init(ratio, hub) ==
    [raised |-> FALSE, round_trip_ratio |-> ratio, hub_threshold |-> hub]

\* CorrelationAgent.__init__ and the GraphClusterer.__init__ it calls: two
\* empty dicts and the threshold, no check
CorrelationAgent_init(t) ==
    [raised |-> FALSE, parent |-> Empty, size |-> Empty, threshold |-> t]

\* the balances the agent of this specification is handed
ConfigBalances ==
    {b \in BalanceLists :
        Len(b) = 2 /\ b[1].address = "A" /\ b[2].address = "B" /\ b[1].sent = 0}

\* nothing has been constructed yet
InitConfig ==
    /\ ClustererInit
    /\ threshold = 50
    /\ AggIdle
    /\ constructed = {}
    /\ ParserIdle
    /\ SniperIdle
    /\ arg = NoValue
    /\ ret = NoValue

\* TransferHeuristics(round_trip_ratio=ratio, hub_threshold=hub)
NewHeuristics(ratio, hub) ==
    /\ "heuristics" \notin constructed
    /\ LET h == TransferHeuristics_init(ratio, hub)
       IN  /\ ~h.raised
           /\ round_trip_ratio' = h.round_trip_ratio
           /\ hub_threshold' = h.hub_threshold
    /\ constructed' = constructed \cup {"heuristics"}
    /\ UNCHANGED <<transfers, aggregates, sent, received, peers, report, stat_flags>>
    /\ UNCHANGED <<clusterer_vars, pure_vars, parser_vars, sniper_vars>>

\* CorrelationAgent(similarity_threshold=t)
NewAgent(t) ==
    /\ "agent" \notin constructed
    /\ LET a == CorrelationAgent_init(t)
       IN  /\ ~a.raised
           /\ parent' = a.parent
           /\ size' = a.size
           /\ threshold' = a.threshold
    /\ constructed' = constructed \cup {"agent"}
    /\ UNCHANGED <<linked, pc, fresh_call, balances, flags, clusters, result_flags, call>>
    /\ UNCHANGED <<pure_vars, agg_vars, parser_vars, sniper_vars>>

NextConfig ==
    \/ \E ratio \in ConfigRatios : NewHeuristics(ratio, DefaultHubThreshold)
    \/ \E t \in ConfigThresholds : NewAgent(t)
    \/ "heuristics" \in constructed /\ \E transfer \in TransferPool : Fold(transfer)
    \/ "heuristics" \in constructed /\ Flag
    \/ "agent" \in constructed /\ \E bal \in ConfigBalances : Correlate(bal, <<>>)

SpecConfig == InitConfig /\ [][NextConfig]_vars

\* ------------------------------------------------------ transaction parser
\* most extract_transfers calls made on one TransactionParser
MaxExtracts == 2

\* None where decimals (Optional[int]) are expected
NoDecimals == 0 - 1

\* int(text): the integer a text denotes, ValueError when it denotes none
int(text) ==
    CASE text = "1500" -> [raised |-> FALSE, value |-> 1500]
      [] text = "700" -> [raised |-> FALSE, value |-> 700]
      [] text = "40" -> [raised |-> FALSE, value |-> 40]
      [] text = "110" -> [raised |-> FALSE, value |-> 110]
      [] text = "120" -> [raised |-> FALSE, value |-> 120]
      [] OTHER -> [raised |-> TRUE, value |-> 0]

RECURSIVE Pow10(_)
Pow10(n) == IF n = 0 THEN 1 ELSE 10 * Pow10(n - 1)

\* one parsed instruction.  parsed: instruction["parsed"] is a dict;
\* amount_in: "tokenAmount" (a dict with "amount"), "info" or "none";
\* decimals: tokenAmount["decimals"]; mint, source, destination: "" if absent
Instruction(type, amount_in, amount, decimals, mint, source, destination) ==
    [program |-> "spl-token", parsed |-> TRUE, type |-> type,
     amount_in |-> amount_in, amount |-> amount, decimals |-> decimals,
     mint |-> mint, source |-> source, destination |-> destination]

\* transferChecked of mintB carrying its decimals
Explicit == Instruction("transferChecked", "tokenAmount", "1500", 2, "mintB", "X", "Y")

\* transfer of mintB without decimals
Plain == Instruction("transfer", "info", "700", NoDecimals, "mintB", "Y", "Z")

\* transfer without a mint: the mint comes from the token balances of X
NoMint == Instruction("transfer", "info", "40", NoDecimals, "", "X", "Z")

\* transfer whose amount is no integer
BadAmount == Instruction("transfer", "info", "abc", NoDecimals, "mintA", "X", "Y")

\* transfer without any amount
NoAmount == Instruction("transfer", "none", "", NoDecimals, "mintA", "X", "Y")

\* an instruction that is no transfer
Approve == Instruction("approve", "info", "40", NoDecimals, "mintA", "X", "Y")

\* an instruction that was not parsed
Unparsed == [Explicit EXCEPT !.parsed = FALSE]

\* meta.preTokenBalances + meta.postTokenBalances: mintA has 6 decimals and
\* account 0 (X) holds it; a later entry of the same mint, index out of range
TokenBalances ==
    <<[mint |-> "mintA", decimals |-> 6, accountIndex |-> 0],
      [mint |-> "mintA", decimals |-> 2, accountIndex |-> 5]>>

AccountKeys == <<"X", "Y", "Z">>

Transaction(token_balances, instructions) ==
    [accountKeys |-> AccountKeys, balances |-> token_balances, instructions |-> instructions]

\* the transactions handed to extract_transfers, in scan order of their
\* instructions
TxPool ==
    {Transaction(b, <<i>>) :
        b \in {<<>>, TokenBalances},
        i \in {Explicit, Plain, NoMint, BadAmount, NoAmount, Approve, Unparsed}}
    \cup {Transaction(b, i) :
            b \in {<<>>, TokenBalances},
            i \in {<<Plain, Plain>>, <<Explicit, Plain>>, <<Plain, Explicit>>,
                   <<NoAmount, Explicit>>, <<BadAmount, Explicit>>,
                   <<Explicit, BadAmount, NoMint>>, <<NoMint, Approve, Plain>>}}

\* the caches a parser is constructed with
InitialCaches == {Empty, ("mintA" :> 2) @@ ("mintB" :> 6)}

\* the callbacks a parser is constructed with: <<>> is none, otherwise the
\* results of its calls in order, the last one repeated
Lookups == {<<>>, <<6, 9>>, <<NoDecimals, 6>>, <<NoDecimals>>}

\* _collect_token_metadata
RECURSIVE CollectLoop(_, _, _, _, _)
CollectLoop(token_balances, account_keys, i, decimals_by_mint, account_mint_map) ==
    IF i > Len(token_balances)
    THEN [decimals_by_mint |-> decimals_by_mint, account_mint_map |-> account_mint_map]
    ELSE LET balance == token_balances[i]
             d == IF balance.mint # "" /\ balance.decimals # NoDecimals
                     /\ balance.mint \notin DOMAIN decimals_by_mint
                  THEN decimals_by_mint @@ (balance.mint :> balance.decimals)
                  ELSE decimals_by_mint
             key == account_keys[balance.accountIndex + 1]
             m == IF 0 <= balance.accountIndex /\ balance.accountIndex < Len(account_keys)
                  THEN IF key \in DOMAIN account_mint_map
                       THEN [account_mint_map EXCEPT ![key] = balance.mint]
                       ELSE account_mint_map @@ (key :> balance.mint)
                  ELSE account_mint_map
         IN  CollectLoop(token_balances, account_keys, i + 1, d, m)

collect_token_metadata(tx) == CollectLoop(tx.balances, tx.accountKeys, 1, Empty, Empty)

\* what the k-th call of the callback returns
LookupResult(lookup, k) == IF k > Len(lookup) THEN lookup[Len(lookup)] ELSE lookup[k]

\* a plausible slip: the resolved value is returned but not stored
decimals_for_mint_uncached(mint, decimals_by_mint, cache, lookup, calls) ==
    IF mint \in DOMAIN decimals_by_mint
    THEN [decimals |-> decimals_by_mint[mint], cache |-> cache, calls |-> calls]
    ELSE IF mint \in DOMAIN cache
    THEN [decimals |-> cache[mint], cache |-> cache, calls |-> calls]
    ELSE IF lookup # <<>>
    THEN LET resolved == LookupResult(lookup, Len(calls) + 1)
         IN  [decimals |-> resolved, cache |-> cache,
              calls |-> Append(calls, [mint |-> mint, resolved |-> resolved])]
    ELSE [decimals |-> NoDecimals, cache |-> cache, calls |-> calls]

\* a plausible slip: the cache is asked before the balance snapshots
decimals_for_mint_cache_first(mint, decimals_by_mint, cache, lookup, calls) ==
    IF mint \in DOMAIN cache
    THEN [decimals |-> cache[mint], cache |-> cache, calls |-> calls]
    ELSE IF mint \in DOMAIN decimals_by_mint
    THEN [decimals |-> decimals_by_mint[mint], cache |-> cache, calls |-> calls]
    ELSE IF lookup # <<>>
    THEN LET resolved == LookupResult(lookup, Len(calls) + 1)
         IN  [decimals |-> resolved,
              cache |-> IF resolved # NoDecimals THEN cache @@ (mint :> resolved)
                        ELSE cache,
              calls |-> Append(calls, [mint |-> mint, resolved |-> resolved])]
    ELSE [decimals |-> NoDecimals, cache |-> cache, calls |-> calls]

\* _decimals_for_mint: the decimals, the cache and the calls it leaves
decimals_for_mint(mint, decimals_by_mint, cache, lookup, calls) ==
    IF mint \in DOMAIN decimals_by_mint
    THEN [decimals |-> decimals_by_mint[mint], cache |-> cache, calls |-> calls]
    ELSE IF mint \in DOMAIN cache
    THEN [decimals |-> cache[mint], cache |-> cache, calls |-> calls]
    ELSE IF lookup # <<>>
    THEN LET resolved == LookupResult(lookup, Len(calls) + 1)
         IN  [decimals |-> resolved,
              cache |-> IF resolved # NoDecimals THEN cache @@ (mint :> resolved)
                        ELSE cache,
              calls |-> Append(calls, [mint |-> mint, resolved |-> resolved])]
    ELSE [decimals |-> NoDecimals, cache |-> cache, calls |-> calls]

\* account_mint_map.get(source) or account_mint_map.get(destination) or ""
MintOfAccounts(account_mint_map, source, destination) ==
    IF source \in DOMAIN account_mint_map /\ account_mint_map[source] # ""
    THEN account_mint_map[source]
    ELSE IF destination \in DOMAIN account_mint_map
    THEN account_mint_map[destination]
    ELSE ""

NoTransfer == [mint |-> ""]

\* _parse_instruction: the TokenTransfer or None (NoTransfer), or the
\* exception of int(), and the cache and callback calls it leaves
parse_instruction(instruction, meta, cache, lookup, calls) ==
    LET none == [raised |-> FALSE, transfer |-> NoTransfer, cache |-> cache,
                 calls |-> calls]
        raw_amount == int(instruction.amount)
        mint == IF instruction.mint # "" THEN instruction.mint
                ELSE MintOfAccounts(meta.account_mint_map, instruction.source,
                                    instruction.destination)
        found == decimals_for_mint(mint, meta.decimals_by_mint, cache, lookup, calls)
        decimals == IF instruction.amount_in = "tokenAmount"
                       /\ instruction.decimals # NoDecimals
                    THEN instruction.decimals ELSE found.decimals
    IN  IF ~instruction.parsed THEN none
        ELSE IF instruction.type \notin {"transfer", "transferChecked"} THEN none
        ELSE IF instruction.amount_in = "none" THEN none
        ELSE IF raw_amount.raised THEN [none EXCEPT !.raised = TRUE]
        ELSE IF mint = "" THEN none
        ELSE IF decimals = NoDecimals
        THEN [raised |-> FALSE, transfer |-> NoTransfer, cache |-> found.cache,
              calls |-> found.calls]
        ELSE [raised |-> FALSE,
              transfer |-> [mint |-> mint, source |-> instruction.source,
                            destination |-> instruction.destination,
                            amount |-> [num |-> raw_amount.value,
                                        den |-> Pow10(decimals)],
                            raw_amount |-> raw_amount.value, decimals |-> decimals,
                            program |-> instruction.program],
              cache |-> found.cache, calls |-> found.calls]

\* extract_transfers: the loop over the instructions; st carries the list
\* `transfers`, the result of every instruction scanned, the cache and the
\* callback calls; an exception ends the loop
RECURSIVE InstructionLoop(_, _, _, _, _)
InstructionLoop(instructions, i, meta, lookup, st) ==
    IF i > Len(instructions) \/ st.raised THEN st
    ELSE LET r == parse_instruction(instructions[i], meta, st.cache, lookup, st.calls)
         IN  InstructionLoop(instructions, i + 1, meta, lookup,
                 [raised |-> r.raised,
                  transfers |-> IF ~r.raised /\ r.transfer # NoTransfer
                                THEN Append(st.transfers, r.transfer)
                                ELSE st.transfers,
                  results |-> Append(st.results, r),
                  cache |-> r.cache, calls |-> r.calls])

extract_transfers(tx, cache, lookup, calls) ==
    InstructionLoop(tx.instructions, 1, collect_token_metadata(tx), lookup,
                    [raised |-> FALSE, transfers |-> <<>>, results |-> <<>>,
                     cache |-> cache, calls |-> calls])

\* TransactionParser(mint_decimals, mint_lookup), nothing parsed yet
InitParser ==
    /\ ClustererInit
    /\ AggIdle
    /\ constructed = {"agent", "heuristics"}
    /\ SniperIdle
    /\ arg = NoValue
    /\ ret = NoValue
    /\ mint_decimals \in InitialCaches
    /\ mint_lookup \in Lookups
    /\ lookup_calls = <<>>
    /\ extracts = 0
    /\ extracted = NoValue

\* a client calls parser.extract_transfers(tx)
ExtractTransfers(tx) ==
    /\ extracts < MaxExtracts
    /\ LET r == extract_transfers(tx, mint_decimals, mint_lookup, lookup_calls)
       IN  /\ mint_decimals' = r.cache
           /\ lookup_calls' = r.calls
           /\ extracted' = [kind |-> "extract", tx |-> tx, raised |-> r.raised,
                            transfers |-> IF r.raised THEN <<>> ELSE r.transfers,
                            results |-> r.results,
                            cache_before |-> mint_decimals,
                            calls_before |-> Len(lookup_calls)]
    /\ extracts' = extracts + 1
    /\ UNCHANGED <<mint_lookup, constructed>>
    /\ UNCHANGED <<clusterer_vars, pure_vars, agg_vars, sniper_vars>>

NextParser == \E tx \in TxPool : ExtractTransfers(tx)

SpecParser == InitParser /\ [][NextParser]_vars

\* ---------------------------------------------------------------- dex_sniper
\* Quote: the fields the strategy reads; price in hundredths
Quote(aggregator, in_amount, out_amount, slippage_bps, price) ==
    [aggregator |-> aggregator, in_amount |-> in_amount, out_amount |-> out_amount,
     slippage_bps |-> slippage_bps, price |-> price]

\* selected_quote = None
NoQuote == [aggregator |-> ""]

RECURSIVE BestLoop(_, _, _)
BestLoop(quotes, i, best) ==
    IF i > Len(quotes) THEN best
    ELSE BestLoop(quotes, i + 1,
                  IF best = NoQuote \/ quotes[i].out_amount > best.out_amount
                  THEN quotes[i] ELSE best)

\* SniperStrategy.best_quote
best_quote(quotes) == BestLoop(quotes, 1, NoQuote)

\* SniperStrategy.improvement_bps as the exact fraction num / den, den > 0:
\* (candidate - reference) / reference * 10000, and 0 when the division raises
improvement_bps(candidate_price, ref) ==
    IF ref = 0 THEN [num |-> 0, den |-> 1]
    ELSE IF ref > 0 THEN [num |-> (candidate_price - ref) * 10000, den |-> ref]
    ELSE [num |-> (ref - candidate_price) * 10000, den |-> 0 - ref]

\* improvement < bound
ImprovementBelow(improvement, bound) == improvement.num < bound * improvement.den

SniperDecision(execute, aggregator, improvement, ref, reason, selected_quote) ==
    [execute |-> execute, aggregator |-> aggregator, improvement_bps |-> improvement,
     reference_price |-> ref, reason |-> reason, selected_quote |-> selected_quote]

\* a plausible slip: >= for >, a quote at the slippage limit is rejected
evaluate_strict_slippage(quotes, config, ref) ==
    LET quote == best_quote(quotes)
        zero == [num |-> 0, den |-> 1]
        improvement == improvement_bps(quote.price, ref)
    IN  IF quote = NoQuote
        THEN [state |-> ref,
              decision |-> SniperDecision(FALSE, "", zero, ref, "no quotes available", NoQuote)]
        ELSE IF quote.slippage_bps >= config.max_slippage_bps
        THEN [state |-> ref,
              decision |-> SniperDecision(FALSE, quote.aggregator, zero, ref,
                                          "slippage above limit", quote)]
        ELSE IF config.min_out_amount # NoAmountFloor /\ quote.out_amount < config.min_out_amount
        THEN [state |-> ref,
              decision |-> SniperDecision(FALSE, quote.aggregator, zero, ref,
                                          "expected output below floor", quote)]
        ELSE IF ImprovementBelow(improvement, config.min_improvement_bps)
        THEN [state |-> ref,
              decision |-> SniperDecision(FALSE, quote.aggregator, improvement, ref,
                                          "improvement below threshold", quote)]
        ELSE [state |-> quote.price,
              decision |-> SniperDecision(TRUE, quote.aggregator, improvement, quote.price,
                                          "exceeds improvement threshold", quote)]

\* a plausible slip: the reference price is updated before the improvement check
evaluate_updates_early(quotes, config, ref) ==
    LET quote == best_quote(quotes)
        zero == [num |-> 0, den |-> 1]
        improvement == improvement_bps(quote.price, ref)
    IN  IF quote = NoQuote
        THEN [state |-> ref,
              decision |-> SniperDecision(FALSE, "", zero, ref, "no quotes available", NoQuote)]
        ELSE IF quote.slippage_bps > config.max_slippage_bps
        THEN [state |-> ref,
              decision |-> SniperDecision(FALSE, quote.aggregator, zero, ref,
                                          "slippage above limit", quote)]
        ELSE IF config.min_out_amount # NoAmountFloor /\ quote.out_amount < config.min_out_amount
        THEN [state |-> ref,
              decision |-> SniperDecision(FALSE, quote.aggregator, zero, ref,
                                          "expected output below floor", quote)]
        ELSE IF ImprovementBelow(improvement, config.min_improvement_bps)
        THEN [state |-> quote.price,
              decision |-> SniperDecision(FALSE, quote.aggregator, improvement, quote.price,
                                          "improvement below threshold", quote)]
        ELSE [state |-> quote.price,
              decision |-> SniperDecision(TRUE, quote.aggregator, improvement, quote.price,
                                          "exceeds improvement threshold", quote)]

\* SniperStrategy.evaluate: the decision it returns and state.reference_price
\* when it returns
evaluate(quotes, config, ref) ==
    LET quote == best_quote(quotes)
        zero == [num |-> 0, den |-> 1]
        improvement == improvement_bps(quote.price, ref)
    IN  IF quote = NoQuote
        THEN [state |-> ref,
              decision |-> SniperDecision(FALSE, "", zero, ref, "no quotes available", NoQuote)]
        ELSE IF quote.slippage_bps > config.max_slippage_bps
        THEN [state |-> ref,
              decision |-> SniperDecision(FALSE, quote.aggregator, zero, ref,
                                          "slippage above limit", quote)]
        ELSE IF config.min_out_amount # NoAmountFloor /\ quote.out_amount < config.min_out_amount
        THEN [state |-> ref,
              decision |-> SniperDecision(FALSE, quote.aggregator, zero, ref,
                                          "expected output below floor", quote)]
        ELSE IF ImprovementBelow(improvement, config.min_improvement_bps)
        THEN [state |-> ref,
              decision |-> SniperDecision(FALSE, quote.aggregator, improvement, ref,
                                          "improvement below threshold", quote)]
        ELSE [state |-> quote.price,
              decision |-> SniperDecision(TRUE, quote.aggregator, improvement, quote.price,
                                          "exceeds improvement threshold", quote)]

\* what HttpClient.get_json does for one request: it raises RequestException,
\* or returns the decoded JSON body: null, an empty array, or an object whose
\* amount key ("outAmount", "quotedAmount") holds a text or is missing ("")
RequestFailure == [type |-> "failure"]

JsonNull == [type |-> "null"]

JsonArray == [type |-> "array"]

JsonObject(amount) == [type |-> "object", amount |-> amount]

PairConfig(amount_in, slippage_bps) == [amount_in |-> amount_in, slippage_bps |-> slippage_bps]

\* the quote for a parsed amount: price = out_amount / amount, ValueError when
\* the division raises
PricedQuote(aggregator, out_amount, amount, slippage_bps) ==
    IF amount = 0
    THEN [raised |-> "ValueError", quote |-> NoQuote]
    ELSE [raised |-> "",
          quote |-> Quote(aggregator, amount, out_amount, slippage_bps,
                          (out_amount * 100) \div amount)]

\* JupiterClient.parse_quote: `"outAmount" not in response` raises TypeError
\* on None and is true of an empty list
jupiter_parse_quote(response, amount, slippage_bps) ==
    IF response.type = "null" THEN [raised |-> "TypeError", quote |-> NoQuote]
    ELSE IF response.type = "array" \/ response.amount = ""
    THEN [raised |-> "ValueError", quote |-> NoQuote]
    ELSE IF int(response.amount).raised THEN [raised |-> "ValueError", quote |-> NoQuote]
    ELSE PricedQuote("jupiter", int(response.amount).value, amount, slippage_bps)

\* OrcaClient.parse_quote: None and a list have no attribute `get`
orca_parse_quote(response, amount, slippage_bps) ==
    IF response.type \in {"null", "array"} THEN [raised |-> "AttributeError", quote |-> NoQuote]
    ELSE IF response.amount = "" THEN [raised |-> "ValueError", quote |-> NoQuote]
    ELSE IF int(response.amount).raised THEN [raised |-> "ValueError", quote |-> NoQuote]
    ELSE PricedQuote("orca", int(response.amount).value, amount, slippage_bps)

\* one try block of fetch_quotes: RequestException and ValueError are passed
\* over, any other exception leaves fetch_quotes
TryQuote(quotes, response, parsed) ==
    IF response.type = "failure" \/ parsed.raised = "ValueError"
    THEN [raised |-> "", quotes |-> quotes]
    ELSE IF parsed.raised # "" THEN [raised |-> parsed.raised, quotes |-> quotes]
    ELSE [raised |-> "", quotes |-> Append(quotes, parsed.quote)]

\* DexSniperAgent.fetch_quotes: the quotes it returns or the exception it raises
fetch_quotes(jupiter_resp, orca_resp, pair_config) ==
    LET jupiter == TryQuote(<<>>, jupiter_resp,
                            jupiter_parse_quote(jupiter_resp, pair_config.amount_in,
                                                pair_config.slippage_bps))
    IN  IF jupiter.raised # "" THEN jupiter
        ELSE TryQuote(jupiter.quotes, orca_resp,
                      orca_parse_quote(orca_resp, pair_config.amount_in,
                                       pair_config.slippage_bps))

\* the responses one aggregator gives
Responses ==
    {RequestFailure, JsonNull, JsonArray, JsonObject(""), JsonObject("abc"),
     JsonObject("110"), JsonObject("120")}

\* amount_in 100 and slippage 50 as in the tests, and two other amounts
PairConfigs == {PairConfig(100, 50), PairConfig(40, 50), PairConfig(0, 50)}

FetchInputs ==
    {[kind |-> "fetch", jupiter |-> j, orca |-> o, pair_config |-> c] :
        j \in Responses, o \in Responses, c \in PairConfigs}

InitFetch == ClustererInit /\ AggIdle /\ RestIdle /\ arg \in FetchInputs /\ ret = NoValue

\* a client calls agent.fetch_quotes()
FetchQuotes ==
    /\ ret = NoValue
    /\ ret' = fetch_quotes(arg.jupiter, arg.orca, arg.pair_config)
    /\ UNCHANGED <<clusterer_vars, agg_vars, rest_vars, arg>>

NextFetch == FetchQuotes

SpecFetch == InitFetch /\ [][NextFetch]_vars

\* the quotes handed to evaluate: those of the tests (out 110 at slippage 75
\* and price 1.10, out 108, out 101), one at the slippage limit, one above
\* it that ties on out_amount, one with the greatest output at a low price
QuotePool ==
    {Quote("jupiter", 100, 110, 75, 110), Quote("orca", 100, 108, 75, 108),
     Quote("jupiter", 100, 101, 50, 101), Quote("orca", 100, 120, 100, 120),
     Quote("orca", 100, 110, 150, 110), Quote("orca", 100, 130, 50, 90),
     Quote("jupiter", 100, 0, 0, 0)}

QuoteLists == {<<>>} \cup {<<q>> : q \in QuotePool} \cup {<<p, q>> : p, q \in QuotePool}

\* reference price 1.00 as in the tests or 0; the thresholds of the tests and
\* 0; no floor or a floor of 105
StrategyConfigs ==
    {StrategyConfig(ref, min_improvement_bps, 100, min_out_amount) :
        ref \in {100, 0}, min_improvement_bps \in {0, 50, 200},
        min_out_amount \in {NoAmountFloor, 105}}

InitSniper ==
    /\ ClustererInit
    /\ AggIdle
    /\ constructed = {"agent", "heuristics"}
    /\ ParserIdle
    /\ arg = NoValue
    /\ ret = NoValue
    /\ \E config \in StrategyConfigs :
          LET s == SniperStrategy_init(config)
          IN  strategy_config = s.config /\ reference_price = s.reference_price
    /\ decision = NoValue

\* a client calls strategy.evaluate(quotes)
Evaluate(quotes) ==
    /\ LET r == evaluate(quotes, strategy_config, reference_price)
       IN  /\ reference_price' = r.state
           /\ decision' = [kind |-> "evaluate", quotes |-> quotes,
                           reference_before |-> reference_price, result |-> r.decision]
    /\ UNCHANGED <<strategy_config, constructed, parser_vars>>
    /\ UNCHANGED <<clusterer_vars, pure_vars, agg_vars>>

\* a client calls agent.plan(): evaluate on what fetch_quotes returns
Plan(jupiter_resp, orca_resp) ==
    LET fetched == fetch_quotes(jupiter_resp, orca_resp, PairConfig(100, 50))
    IN  /\ fetched.raised = ""
        /\ Evaluate(fetched.quotes)

NextSniper ==
    \/ \E quotes \in QuoteLists : Evaluate(quotes)
    \/ \E j, o \in Responses : Plan(j, o)

SpecSniper == InitSniper /\ [][NextSniper]_vars

\* ---------------------------------------------------------------- claims
Returned == pc = "returned"

ClusterMembers == UNION {clusters[i].members : i \in 1..Len(clusters)}

\* the similarity of two input addresses is at least the threshold
SimilarityAtLeast(bal, t, a, b) ==
    LET sim == similarity(ByAddr(bal, a), ByAddr(bal, b))
    IN  sim.num * 100 >= t * sim.den

\* the input addresses joined to those of seen by a chain of similar pairs
RECURSIVE ChainedTo(_, _, _)
ChainedTo(bal, t, seen) ==
    LET more == seen \cup { b \in InputAddresses(bal) :
                               \E a \in seen : a # b /\ SimilarityAtLeast(bal, t, a, b) }
    IN  IF more = seen THEN seen ELSE ChainedTo(bal, t, more)

SameCluster(a, b) ==
    \E i \in 1..Len(clusters) : a \in clusters[i].members /\ b \in clusters[i].members

\* input addresses left out of every cluster although nothing is similar to them
ExcludedSingletons ==
    { a \in InputAddresses(balances) \ ClusterMembers :
          BlockOf(linked, a) \cap InputAddresses(balances) = {a} }

\* C1: the returned clusters are pairwise disjoint, and their members together
\* with the excluded singleton addresses are exactly the input addresses.
C1_ClusterPartition ==
    Returned =>
        /\ \A i, j \in 1..Len(clusters) :
               i # j => clusters[i].members \cap clusters[j].members = {}
        /\ ClusterMembers \cup ExcludedSingletons = InputAddresses(balances)

\* two clusters, one of them with two members, on a clusterer used before
C1_Witness ==
    /\ Returned
    /\ ~fresh_call
    /\ Len(clusters) = 2
    /\ \E i \in 1..2 : Cardinality(clusters[i].members) = 2

\* C2: find(x) = find(y) exactly when x and y are connected through the
\* unions performed so far; in particular after union(a, b) and union(b, c)
\* the addresses a and c have the same root.
C2_FindIffConnected ==
    \A x, y \in Addr : (Root(x) = Root(y)) <=> (BlockOf(linked, x) = BlockOf(linked, y))

\* three distinct addresses joined by two unions, one of them below a non-root
C2_Witness ==
    \E a, b, c \in DOMAIN parent :
        /\ a # b /\ b # c /\ a # c
        /\ BlockOf(linked, a) = BlockOf(linked, c)
        /\ parent[parent[c]] # parent[c]
        /\ Root(a) = Root(c)

\* C3: after a clustering on a fresh clusterer two distinct input addresses
\* are in the same cluster iff a chain of input addresses joins them in which
\* every consecutive pair has similarity >= threshold.
C3_SameClusterIffChained ==
    (Returned /\ fresh_call) =>
        \A a, b \in InputAddresses(balances) :
            a # b => (SameCluster(a, b) <=> b \in ChainedTo(balances, threshold, {a}))

\* two addresses below the threshold share a cluster through a third one
C3_Witness ==
    /\ Returned
    /\ fresh_call
    /\ \E a, b \in InputAddresses(balances) :
           /\ a # b
           /\ ~SimilarityAtLeast(balances, threshold, a, b)
           /\ SameCluster(a, b)

InputFlagged == {flags[k].address : k \in 1..Len(flags)}

\* the flags behind the first Len(flags) flags of the result
NewFlags == SubSeq(result_flags, Len(flags) + 1, Len(result_flags))

\* unflagged members of the clusters that hold an input-flagged address
ProximityTargets ==
    { a \in ClusterMembers \ InputFlagged :
          \E i \in 1..Len(clusters) :
              a \in clusters[i].members /\ clusters[i].members \cap InputFlagged # {} }

\* C4: exactly the unflagged members of clusters that contain an input-flagged
\* address receive a new cluster-proximity flag, one each, and nobody else.
C4_PropagationExact ==
    Returned =>
        /\ \A k \in 1..Len(NewFlags) : NewFlags[k].reason = ProximityReason
        /\ \A a \in Wallets :
               Cardinality({k \in 1..Len(NewFlags) : NewFlags[k].address = a})
                   = IF a \in ProximityTargets THEN 1 ELSE 0

\* one flagged member of a three-member cluster: two new flags
C4_Witness ==
    /\ Returned
    /\ \E i \in 1..Len(clusters) :
           /\ Cardinality(clusters[i].members) = 3
           /\ Cardinality(clusters[i].members \cap InputFlagged) = 1
    /\ Len(NewFlags) = 2

\* C5: the result starts with the input flags, in order and with their
\* duplicates, and every cluster-proximity flag comes after them.
C5_InputFlagsKept ==
    Returned =>
        /\ Len(result_flags) >= Len(flags)
        /\ SubSeq(result_flags, 1, Len(flags)) = flags
        /\ \A k \in 1..Len(result_flags) :
               result_flags[k].reason = ProximityReason => k > Len(flags)

\* the same flag twice in the input, and a proximity flag appended
C5_Witness ==
    /\ Returned
    /\ Len(flags) = 2
    /\ flags[1] = flags[2]
    /\ Len(result_flags) > Len(flags)

\* what a newly constructed agent with the same threshold returns
FreshClusters(bal) == cluster_by_flow_similarity(Empty, Empty, threshold, bal).clusters

FreshFlags(bal, fl) ==
    { propagate(FreshClusters(bal), fl, order) : order \in IterationOrders }

\* C6: a call to correlate on an agent used before returns the clusters and
\* flags that a newly constructed agent returns for the same arguments.
C6_FreshStatePerRun ==
    Returned =>
        /\ clusters = FreshClusters(balances)
        /\ result_flags \in FreshFlags(balances, flags)

BalanceOrders(bal) ==
    { [k \in 1..Len(bal) |-> bal[o[k]]] :
          o \in { f \in [1..Len(bal) -> 1..Len(bal)] :
                      \A i, j \in 1..Len(bal) : i # j => f[i] # f[j] } }

\* C7: on a fresh agent the propagated flags are the same sequence whatever
\* order a set of addresses is iterated in, for the members of a cluster and
\* for the addresses the balances are built from.
C7_FlagsReproducible ==
    (Returned /\ fresh_call) =>
        \A order \in IterationOrders, bal \in BalanceOrders(balances) :
            correlate(Empty, Empty, threshold, bal, flags, order).flags = result_flags

\* C8: the returned clusters are in non-increasing order of score.
C8_SortedByScore ==
    Returned =>
        \A i \in 1..(Len(clusters) - 1) :
            clusters[i].score.num * clusters[i + 1].score.den
                >= clusters[i + 1].score.num * clusters[i].score.den

\* the cluster of the first input address has the lower score and comes last
C8_Witness ==
    /\ Returned
    /\ fresh_call
    /\ Len(clusters) = 2
    /\ balances[1].address \in clusters[2].members
    /\ clusters[1].score.num * clusters[2].score.den
           > clusters[2].score.num * clusters[1].score.den

\* C9: the returned cluster order is the same for every order in which the
\* same address stats are supplied, clusters of equal score included.
C9_OrderIndependentOfInputOrder ==
    (Returned /\ fresh_call) =>
        \A bal \in BalanceOrders(balances) : FreshClusters(bal) = clusters

ClusterOf(cs, a) == cs[CHOOSE i \in 1..Len(cs) : a \in cs[i].members]

RaisedAddress == arg.stats[arg.who].address

\* c.score >= d.score on the fractions
ScoreAtLeast(c, d) == c.score.num * d.score.den >= d.score.num * c.score.den

\* C11 as stated: raising the sent or received total of one member, the other
\* stats unchanged, never decreases the score of that member's cluster.
C11_ScoreNeverDecreases ==
    ret.kind = "increase" =>
        ScoreAtLeast(ClusterOf(ret.after, RaisedAddress),
                     ClusterOf(ret.before, RaisedAddress))

\* C11 as amended: when the raise leaves the member set of the member's cluster
\* as it was, the score of that cluster does not decrease.
C11_ScoreMonotoneSameMembers ==
    ret.kind = "increase" =>
        (ClusterOf(ret.after, RaisedAddress).members
             = ClusterOf(ret.before, RaisedAddress).members
         => ScoreAtLeast(ClusterOf(ret.after, RaisedAddress),
                         ClusterOf(ret.before, RaisedAddress)))

\* a cluster of two keeps its members and its score goes up
C11_Witness ==
    /\ ret.kind = "increase"
    /\ Cardinality(ClusterOf(ret.before, RaisedAddress).members) = 2
    /\ ClusterOf(ret.after, RaisedAddress).members
           = ClusterOf(ret.before, RaisedAddress).members
    /\ ~ScoreAtLeast(ClusterOf(ret.before, RaisedAddress),
                     ClusterOf(ret.after, RaisedAddress))

\* C12: similarity is symmetric: _similarity(a, b) == _similarity(b, a) for
\* every pair of address stats.
C12_SimilaritySymmetric == ret.kind = "similarity" => ret.ab = ret.ba

\* C13: no ratio computation faults on a zero denominator: the similarity of
\* two all-zero stats is 1.0, and the round-trip rule of either implementation
\* on an address with received = 0 raises nothing and gives no round-trip flag.
C13_NoZeroDivisionFault ==
    /\ ret.kind = "similarity" =>
           /\ ~ret.ab.raised /\ ~ret.ba.raised
           /\ (arg.a.sent = 0 /\ arg.a.received = 0 /\ arg.b.sent = 0 /\ arg.b.received = 0)
                  => ret.ab.value = FloatOf(1)
    /\ ret.kind = "stats_rule" =>
           /\ ~ret.out.raised
           /\ arg.a.received = 0 =>
                  \A i \in 1..Len(ret.out.reasons) : ret.out.reasons[i] # NearSymmetricReason
    /\ ret.kind = "metrics_rule" =>
           /\ ~ret.out.raised
           /\ arg.a.received = 0 =>
                  \A i \in 1..Len(ret.out.reasons) : ret.out.reasons[i] # "round_trip_flow"

C13_Witness ==
    /\ ret.kind = "metrics_rule"
    /\ arg.a.received = 0 /\ arg.a.sent > 0
    /\ ~ret.out.raised /\ ret.out.reasons = <<>>

C13_WitnessSimilarity ==
    /\ ret.kind = "similarity"
    /\ arg.a.sent = 0 /\ arg.a.received = 0 /\ arg.b.sent = 0 /\ arg.b.received = 0
    /\ ret.ab.value = FloatOf(1)

HasReason(reasons, reason) == \E i \in 1..Len(reasons) : reasons[i] = reason

\* C19: in tools/heuristics.py an address receives the hub-behavior flag if and
\* only if unique_counterparties >= 50 and sent > 0; an address with exactly 50
\* distinct counterparties and sent > 0 is flagged.
C19_HubFlagFromFifty ==
    ret.kind = "stats_rule" =>
        (HasReason(ret.out.reasons, HighDegreeReason)
            <=> (arg.a.unique_counterparties >= 50 /\ arg.a.sent > 0))

\* the size of the set of root r before the call (1 when r is registered by it)
SizeBefore(r) == IF r \in DOMAIN size THEN size[r] ELSE 1

\* the root of x before the call, read without compressing (x itself when new)
RECURSIVE RootBefore(_)
RootBefore(x) ==
    IF x \notin DOMAIN parent \/ parent[x] = x THEN x ELSE RootBefore(parent[x])

\* the step is a call union(a, b) whose arguments had the roots ra and rb
UnionCalled(ra, rb) ==
    /\ call'.op = "union"
    /\ call'.root_a = ra /\ call'.root_b = rb
    /\ ra = RootBefore(call'.a) /\ rb = RootBefore(call'.b)

\* different roots: the root of the strictly smaller set goes under the root
\* of the larger, the first argument's root is the parent on a tie, and the
\* surviving root's size is the sum of both
MergedBySize(ra, rb) ==
    LET small == IF SizeBefore(ra) < SizeBefore(rb) THEN ra ELSE rb
        large == IF SizeBefore(ra) < SizeBefore(rb) THEN rb ELSE ra
    IN  /\ parent'[small] = large
        /\ parent'[large] = large
        /\ size'[large] = SizeBefore(ra) + SizeBefore(rb)

\* C14: union(a, b) on different roots repoints the root of the strictly
\* smaller set under the root of the larger and adds the smaller size to the
\* surviving root's size; on equal sizes the first argument's root becomes the
\* parent; when the roots are equal union changes nothing.
C14_UnionBySize ==
    [][\A ra, rb \in Addr :
          UnionCalled(ra, rb) =>
              /\ ra # rb => MergedBySize(ra, rb)
              /\ ra = rb => (parent' = parent /\ size' = size)]_vars

\* C14 as the code has it: on equal roots union merges nothing (every address
\* keeps its root and every recorded size its value), but its two find calls
\* still register a new address and halve paths.
C14_UnionBySizeOrNoMerge ==
    [][\A ra, rb \in Addr :
          UnionCalled(ra, rb) =>
              /\ ra # rb => MergedBySize(ra, rb)
              /\ ra = rb =>
                    /\ \A x \in DOMAIN parent :
                           /\ find(parent', size', x).root = RootBefore(x)
                           /\ size'[x] = size[x]
                    /\ \A x \in DOMAIN parent' \ DOMAIN parent :
                           /\ x \in {call'.a, call'.b}
                           /\ parent'[x] = x /\ size'[x] = 1]_vars

\* a union on a tie was followed by a union whose first argument's set was
\* strictly smaller: its root now hangs under the second argument's root
C14_Witness ==
    /\ call.op = "union"
    /\ call.root_a # call.root_b
    /\ parent[call.root_a] = call.root_b
    /\ size[call.root_b] >= 3

\* a union of two addresses of one set has compressed a path
C14_WitnessSameRoot ==
    /\ call.op = "union"
    /\ call.root_a = call.root_b
    /\ call.a # call.b
    /\ \E x \in DOMAIN parent : x # call.a /\ x # call.b /\ parent[x] # x

\* ---- aggregation claims: the folded transfers are the history `transfers`
TransferAddresses(ts) ==
    {ts[i].source : i \in 1..Len(ts)} \cup {ts[i].destination : i \in 1..Len(ts)}

OfMint(ts, mint) == SelectSeq(ts, LAMBDA t : t.mint = mint)

\* exact sum of the amounts of the transfers of ts whose field role is a
RECURSIVE SumAmounts(_, _, _)
SumAmounts(ts, role, a) ==
    IF ts = <<>> THEN 0
    ELSE (IF Head(ts)[role] = a THEN Head(ts).amount ELSE 0)
         + SumAmounts(Tail(ts), role, a)

\* the same sum in floats, added in the order of the transfers
RECURSIVE FloatSumAmounts(_, _, _, _)
FloatSumAmounts(ts, role, a, acc) ==
    IF ts = <<>> THEN acc
    ELSE FloatSumAmounts(Tail(ts), role, a,
                         IF Head(ts)[role] = a
                         THEN FloatAdd(acc, FloatOf(Head(ts).amount)) ELSE acc)

Counterparties(ts, a) ==
    {ts[i].destination : i \in {j \in 1..Len(ts) : ts[j].source = a}}
        \cup {ts[i].source : i \in {j \in 1..Len(ts) : ts[j].destination = a}}

\* the three dicts of heuristics.py as its aggregate_balances returns them
StatsNow == balance_map([sent |-> sent, received |-> received, peers |-> peers])

\* C15: after aggregate_balances has folded the transfers, every address that
\* occurs as a source or a destination has an entry; its sent is the sum of
\* the amounts it sourced, its received the sum of the amounts it was the
\* destination of, its peers are exactly its counterparties; an address seen
\* only as a destination has sent = 0.  (Per mint in transfer_heuristics.py,
\* over all transfers and in float addition in heuristics.py.)
C15_AggregateTotals ==
    /\ \A i \in 1..Len(transfers) :
          LET mint == transfers[i].mint
              ts == OfMint(transfers, mint)
          IN  /\ mint \in DOMAIN aggregates.val
              /\ \A a \in TransferAddresses(ts) :
                    /\ a \in DOMAIN aggregates.val[mint].val
                    /\ LET metrics == aggregates.val[mint].val[a]
                       IN  /\ metrics.sent = SumAmounts(ts, "source", a)
                           /\ metrics.received = SumAmounts(ts, "destination", a)
                           /\ metrics.peers = Counterparties(ts, a)
    /\ \A a \in TransferAddresses(transfers) :
          /\ a \in DOMAIN StatsNow
          /\ StatsNow[a].sent = FloatSumAmounts(transfers, "source", a, FloatZero)
          /\ StatsNow[a].received
                 = FloatSumAmounts(transfers, "destination", a, FloatZero)
          /\ StatsNow[a].unique_counterparties
                 = Cardinality(Counterparties(transfers, a))

\* Y sent twice, Z was only ever a destination and has sent = 0 in both
C15_Witness ==
    /\ Len(transfers) = 3
    /\ "mintA" \in DOMAIN aggregates.val
    /\ {"Y", "Z"} \subseteq DOMAIN aggregates.val["mintA"].val
    /\ aggregates.val["mintA"].val["Y"].sent = 145
    /\ aggregates.val["mintA"].val["Z"] = [sent |-> 0, received |-> 95, peers |-> {"Y"}]
    /\ "Z" \in DOMAIN StatsNow /\ StatsNow["Z"].sent = FloatZero

\* the step folds one more transfer
Folded == Len(transfers') = Len(transfers) + 1

StatsNext == balance_map([sent |-> sent', received |-> received', peers |-> peers'])

\* C16: after every folded transfer each address's unique_counterparties is
\* the size of its peer set, and no sent or received total is lower than it
\* was before the transfer was folded in.
C16_CountsAndMonotoneTotals ==
    [][Folded =>
          /\ \A a \in DOMAIN StatsNext :
                /\ a \in DOMAIN peers'
                /\ StatsNext[a].unique_counterparties = Cardinality(peers'[a])
          /\ \A a \in DOMAIN StatsNow :
                /\ a \in DOMAIN StatsNext
                /\ FloatLeq(StatsNow[a].sent, StatsNext[a].sent)
                /\ FloatLeq(StatsNow[a].received, StatsNext[a].received)
          /\ \A mint \in DOMAIN aggregates.val :
                /\ mint \in DOMAIN aggregates'.val
                /\ \A a \in DOMAIN aggregates.val[mint].val :
                      /\ a \in DOMAIN aggregates'.val[mint].val
                      /\ aggregates.val[mint].val[a].sent
                             <= aggregates'.val[mint].val[a].sent
                      /\ aggregates.val[mint].val[a].received
                             <= aggregates'.val[mint].val[a].received]_vars

\* three transfers folded, the last one raised a total that was already there
C16_Witness ==
    /\ Len(transfers) = 3
    /\ transfers[1].source = transfers[3].source
    /\ transfers[3].amount > 0
    /\ StatsNow[transfers[3].source].unique_counterparties = 2

\* the per-mint, per-address values of a buckets dict, without its key order
ValuesOf(b) ==
    [mint \in DOMAIN b.val |-> [a \in DOMAIN b.val[mint].val |-> b.val[mint].val[a]]]

Permuted(ts, order) == [i \in 1..Len(ts) |-> ts[order[i]]]

\* C17: the mint-aware aggregate_balances is a function of the multiset of
\* transfers: run again on the same transfers it returns the same dict, and on
\* any permutation of them the same per-address sent, received and peers.
C17_OrderIndependent ==
    /\ aggregate_balances(transfers) = aggregates
    /\ \A order \in OrdersOf(1..Len(transfers)) :
          ValuesOf(aggregate_balances(Permuted(transfers, order))) = ValuesOf(aggregates)

\* three transfers of which a permutation builds the dict in another key order
C17_Witness ==
    /\ Len(transfers) = 3
    /\ transfers[1].source = transfers[2].source
    /\ transfers[1].amount # transfers[2].amount
    /\ \E order \in OrdersOf(1..Len(transfers)) :
          aggregate_balances(Permuted(transfers, order)).keys # aggregates.keys

\* ---- flagging claims: the report and flag list of the last Flag step
Flagged == report # NoValue

\* the reasons recorded in by_mint for an address of a mint
ReasonsIn(mint, a) ==
    IF mint \in DOMAIN report.by_mint.val /\ a \in DOMAIN report.by_mint.val[mint].val
    THEN report.by_mint.val[mint].val[a]
    ELSE <<>>

\* heuristics.py gave the address the near-symmetric flow flag
NearSymmetricFlagged(a) ==
    \E i \in 1..Len(stat_flags.flags) :
        stat_flags.flags[i] = [address |-> a, reason |-> NearSymmetricReason]

\* X -> Y 100 and Y -> Z 95 of one mint, default round_trip_ratio
Scenario ==
    /\ transfers = <<[source |-> "X", destination |-> "Y", amount |-> 100, mint |-> "mintA"],
                     [source |-> "Y", destination |-> "Z", amount |-> 95, mint |-> "mintA"]>>
    /\ round_trip_ratio = 80

\* received > 0 and sent / received >= ratio (hundredths), exactly
RatioAtLeast(s, r, ratio) == r > 0 /\ s * 100 >= ratio * r

\* the mint-aware rule is exactly received > 0 and sent / received >= ratio
MintAwareRoundTrip ==
    \A mint \in DOMAIN aggregates.val : \A a \in DOMAIN aggregates.val[mint].val :
        HasReason(ReasonsIn(mint, a), "round_trip_flow")
            <=> RatioAtLeast(aggregates.val[mint].val[a].sent,
                             aggregates.val[mint].val[a].received, round_trip_ratio)

\* in the scenario Y, and neither X nor Z, is flagged by both implementations
ScenarioFlagsY ==
    Scenario =>
        /\ HasReason(ReasonsIn("mintA", "Y"), "round_trip_flow")
        /\ ~HasReason(ReasonsIn("mintA", "X"), "round_trip_flow")
        /\ ~HasReason(ReasonsIn("mintA", "Z"), "round_trip_flow")
        /\ NearSymmetricFlagged("Y")
        /\ ~NearSymmetricFlagged("X") /\ ~NearSymmetricFlagged("Z")

\* C18: an address receives the round-trip flag if and only if its received
\* total is > 0 and sent / received >= round_trip_ratio (default 0.8), in
\* transfer_heuristics.py per mint and in heuristics.py over all transfers;
\* for X -> Y 100 and Y -> Z 95 of one mint Y is flagged and X and Z are not.
C18_RoundTripIff ==
    Flagged =>
        /\ ~report.raised /\ ~stat_flags.raised
        /\ MintAwareRoundTrip
        /\ \A a \in DOMAIN StatsNow :
              NearSymmetricFlagged(a)
                  <=> /\ FloatPositive(StatsNow[a].received)
                      /\ FloatLeq(FloatRound(8, 10, 0),
                                  FloatDiv(StatsNow[a].sent, StatsNow[a].received).value)
        /\ ScenarioFlagsY

\* C18 as the code has it: the rule above is the one of transfer_heuristics.py;
\* heuristics.py flags an address iff sent > 0, received > 0, the quotient
\* sent / received lies in [0.8, 1.25] and sent > min_round_trip (10).
C18_RoundTripRules ==
    Flagged =>
        /\ ~report.raised /\ ~stat_flags.raised
        /\ MintAwareRoundTrip
        /\ \A a \in DOMAIN StatsNow :
              NearSymmetricFlagged(a)
                  <=> /\ FloatPositive(StatsNow[a].sent)
                      /\ FloatPositive(StatsNow[a].received)
                      /\ LET q == FloatDiv(StatsNow[a].sent, StatsNow[a].received).value
                         IN  /\ FloatLeq(FloatRound(8, 10, 0), q)
                             /\ FloatLeq(q, FloatRound(125, 100, 0))
                      /\ ~FloatLeq(StatsNow[a].sent, FloatOf(MinRoundTrip))
        /\ ScenarioFlagsY

C18_Witness ==
    /\ Flagged /\ Scenario
    /\ ReasonsIn("mintA", "Y") = <<"round_trip_flow">>
    /\ NearSymmetricFlagged("Y")

\* the tags "<mint>:<reason>" of everything by_mint records for an address
TagsOf(a) ==
    UNION {{mint \o ":" \o ReasonsIn(mint, a)[k] : k \in 1..Len(ReasonsIn(mint, a))} :
              mint \in DOMAIN report.by_mint.val}

\* C20: in the mint-aware flag_suspicious_patterns an address has an entry in
\* cross_mint if and only if it is flagged in at least one mint, and its list
\* holds exactly one entry "<mint>:<reason>" for every (mint, reason) pair
\* by_mint records for it, and nothing else.
C20_CrossMintMirrorsByMint ==
    Flagged =>
        /\ \A mint \in DOMAIN report.by_mint.val :
               report.by_mint.val[mint].keys # <<>>
        /\ \A a \in TransferAddresses(transfers) \cup DOMAIN report.cross_mint.val :
               /\ a \in DOMAIN report.cross_mint.val
                      <=> \E mint \in DOMAIN report.by_mint.val :
                              a \in DOMAIN report.by_mint.val[mint].val
               /\ a \in DOMAIN report.cross_mint.val =>
                      LET list == report.cross_mint.val[a]
                      IN  /\ {list[k] : k \in 1..Len(list)} = TagsOf(a)
                          /\ Len(list) = Cardinality(TagsOf(a))

\* an address flagged in both mints, with two reasons in one of them
C20_Witness ==
    /\ Flagged
    /\ \E a \in DOMAIN report.cross_mint.val :
           /\ Len(report.cross_mint.val[a]) = 3
           /\ Len(ReasonsIn("mintA", a)) >= 1
           /\ Len(ReasonsIn("mintB", a)) >= 1

\* C21: an invalid configuration value (a negative round_trip_ratio, a
\* similarity threshold outside [0, 1]) is rejected when the heuristics or the
\* agent is constructed: no constructed object carries one, so none processes
\* a transfer or a stats record with it.
C21_InvalidConfigRejected ==
    /\ "heuristics" \in constructed => round_trip_ratio >= 0
    /\ "agent" \in constructed => threshold \in 0..100

\* ---- parser claims: `extracted` is the outcome of the last call
Extracted == extracted # NoValue

\* the balance snapshots of the transaction of the last call
MetaOf(tx) == collect_token_metadata(tx)

\* the mint an instruction names or its accounts resolve to, "" if none
MintOf(tx, instruction) ==
    IF instruction.mint # "" THEN instruction.mint
    ELSE IF instruction.source \in DOMAIN MetaOf(tx).account_mint_map
    THEN MetaOf(tx).account_mint_map[instruction.source]
    ELSE IF instruction.destination \in DOMAIN MetaOf(tx).account_mint_map
    THEN MetaOf(tx).account_mint_map[instruction.destination]
    ELSE ""

IsTransfer(instruction) ==
    instruction.parsed /\ instruction.type \in {"transfer", "transferChecked"}

HasExplicitDecimals(instruction) ==
    instruction.amount_in = "tokenAmount" /\ instruction.decimals # NoDecimals

\* the instruction is malformed: no amount, or an amount that is no integer
Malformed(instruction) ==
    instruction.amount_in = "none" \/ instruction.amount \notin {"1500", "700", "40"}

\* the instructions of the last transaction that are transfers, well formed,
\* and yielded a TokenTransfer or would have (mint and decimals resolvable)
RECURSIVE EmittedOf(_, _)
EmittedOf(results, i) ==
    IF i > Len(results) THEN <<>>
    ELSE (IF results[i].transfer # NoTransfer THEN <<results[i].transfer>> ELSE <<>>)
         \o EmittedOf(results, i + 1)

\* C22: extract_transfers never aborts a transaction because of one malformed
\* transfer instruction: it raises nothing, scans every instruction and
\* returns the TokenTransfer of every well-formed one in scan order.
C22_MalformedInstructionDropped ==
    Extracted =>
        /\ ~extracted.raised
        /\ Len(extracted.results) = Len(extracted.tx.instructions)
        /\ extracted.transfers = EmittedOf(extracted.results, 1)
        /\ \A i \in 1..Len(extracted.results) :
              (IsTransfer(extracted.tx.instructions[i])
                  /\ HasExplicitDecimals(extracted.tx.instructions[i])
                  /\ ~Malformed(extracted.tx.instructions[i]))
                  => extracted.results[i].transfer # NoTransfer

\* the cache and the callback calls as instruction i of the last call found them
CacheAt(i) == IF i = 1 THEN extracted.cache_before ELSE extracted.results[i - 1].cache

CallsAt(i) ==
    IF i = 1 THEN SubSeq(lookup_calls, 1, extracted.calls_before)
    ELSE extracted.results[i - 1].calls

\* the callback calls instruction i made
CallsBy(i) ==
    SubSeq(extracted.results[i].calls, Len(CallsAt(i)) + 1, Len(extracted.results[i].calls))

\* instruction i reached the resolution of its decimals: a transfer with a
\* parseable amount and a mint
Resolving(i) ==
    LET instruction == extracted.tx.instructions[i]
    IN  /\ IsTransfer(instruction)
        /\ ~Malformed(instruction)
        /\ MintOf(extracted.tx, instruction) # ""

\* the first available of (a) the instruction's decimals, (b) the balance
\* snapshot, (c) the cache, (d) what the callback returned to instruction i
FirstAvailable(i) ==
    LET instruction == extracted.tx.instructions[i]
        mint == MintOf(extracted.tx, instruction)
    IN  IF HasExplicitDecimals(instruction) THEN instruction.decimals
        ELSE IF mint \in DOMAIN MetaOf(extracted.tx).decimals_by_mint
        THEN MetaOf(extracted.tx).decimals_by_mint[mint]
        ELSE IF mint \in DOMAIN CacheAt(i) THEN CacheAt(i)[mint]
        ELSE IF CallsBy(i) # <<>> THEN CallsBy(i)[1].resolved
        ELSE NoDecimals

\* C23: the decimals of a parsed transfer are the first available of (a) the
\* instruction's, (b) the balance snapshots', (c) the cache's, (d) the
\* callback's; if none yields a value the instruction is dropped.
C23_FirstAvailableDecimals ==
    Extracted =>
        \A i \in 1..Len(extracted.results) :
            Resolving(i) =>
                LET r == extracted.results[i]
                IN  /\ ~r.raised
                    /\ (r.transfer = NoTransfer) <=> (FirstAvailable(i) = NoDecimals)
                    /\ r.transfer # NoTransfer =>
                          /\ r.transfer.decimals = FirstAvailable(i)
                          /\ r.transfer.amount
                                 = [num |-> r.transfer.raw_amount,
                                    den |-> Pow10(FirstAvailable(i))]
                    /\ (mint_lookup # <<>> /\ FirstAvailable(i) = NoDecimals)
                          => CallsBy(i) # <<>>

\* one transaction: the mint resolved through the accounts with the decimals
\* of the snapshot, then no transfer, then the decimals the callback returned
C23_Witness ==
    /\ Extracted
    /\ Len(extracted.transfers) = 2
    /\ extracted.tx.instructions = <<NoMint, Approve, Plain>>
    /\ extracted.transfers[1].decimals = 6 /\ extracted.transfers[1].mint = "mintA"
    /\ extracted.cache_before = Empty
    /\ CallsBy(3) = <<[mint |-> "mintB", resolved |-> 6]>>
    /\ extracted.transfers[2].decimals = 6

\* C24: once the callback has returned decimals for a mint it is never called
\* for that mint again by the same parser, in this or a later call, and the
\* cached value is the one used.
C24_LookupResultCached ==
    /\ \A i, j \in 1..Len(lookup_calls) :
          (i < j /\ lookup_calls[i].mint = lookup_calls[j].mint)
              => lookup_calls[i].resolved = NoDecimals
    /\ \A i \in 1..Len(lookup_calls) :
          lookup_calls[i].resolved # NoDecimals =>
              /\ lookup_calls[i].mint \in DOMAIN mint_decimals
              /\ mint_decimals[lookup_calls[i].mint] = lookup_calls[i].resolved
    /\ Extracted =>
          \A i \in 1..Len(extracted.results) :
              LET instruction == extracted.tx.instructions[i]
                  mint == MintOf(extracted.tx, instruction)
                  r == extracted.results[i]
              IN  (/\ r.transfer # NoTransfer
                   /\ ~HasExplicitDecimals(instruction)
                   /\ mint \notin DOMAIN MetaOf(extracted.tx).decimals_by_mint
                   /\ \E k \in 1..Len(CallsAt(i)) :
                          CallsAt(i)[k].mint = mint /\ CallsAt(i)[k].resolved # NoDecimals)
                      => /\ CallsBy(i) = <<>>
                         /\ \E k \in 1..Len(CallsAt(i)) :
                                /\ CallsAt(i)[k].mint = mint
                                /\ CallsAt(i)[k].resolved = r.transfer.decimals

\* the callback answered 6 in the first call; the second call parsed the same
\* mint with 6 and without asking again, though the callback would now say 9
C24_Witness ==
    /\ Extracted
    /\ extracts = 2
    /\ mint_lookup = <<6, 9>>
    /\ lookup_calls = <<[mint |-> "mintB", resolved |-> 6]>>
    /\ extracted.calls_before = 1
    /\ Len(extracted.transfers) = 1
    /\ extracted.transfers[1].mint = "mintB" /\ extracted.transfers[1].decimals = 6

\* C30: the callback is invoked only by an instruction without explicit
\* decimals whose mint is neither in the balance snapshots nor in the cache;
\* an instruction with explicit decimals triggers no callback invocation and
\* no cache write.
C30_LookupOnlyAsLastResort ==
    Extracted =>
        \A i \in 1..Len(extracted.results) :
            LET instruction == extracted.tx.instructions[i]
                mint == MintOf(extracted.tx, instruction)
            IN  /\ CallsBy(i) # <<>> =>
                      /\ ~HasExplicitDecimals(instruction)
                      /\ mint \notin DOMAIN MetaOf(extracted.tx).decimals_by_mint
                      /\ mint \notin DOMAIN CacheAt(i)
                /\ HasExplicitDecimals(instruction) =>
                      /\ CallsBy(i) = <<>>
                      /\ extracted.results[i].cache = CacheAt(i)

\* the address reached from x by following n parent pointers
RECURSIVE Follow(_, _)
Follow(x, n) == IF n = 0 THEN x ELSE Follow(parent[x], n - 1)

\* the root of x if the map is a forest: no path is longer than the map
RootOf(x) == Follow(x, Cardinality(DOMAIN parent))

\* C27: after any sequence of find and union calls the parent map is a
\* forest: every parent is registered and following the pointers from any
\* registered address reaches a self-parented root, so find terminates; and
\* for every root r, size[r] is the number of registered addresses whose root
\* is r.
C27_ForestWithSizes ==
    /\ DOMAIN size = DOMAIN parent
    /\ \A x \in DOMAIN parent : parent[x] \in DOMAIN parent
    /\ \A x \in DOMAIN parent : parent[RootOf(x)] = RootOf(x)
    /\ \A r \in DOMAIN parent :
          parent[r] = r => size[r] = Cardinality({x \in DOMAIN parent : RootOf(x) = r})

\* a set of four under one root, one member two pointers away from the root
C27_Witness ==
    \E r, x, y \in DOMAIN parent :
        /\ parent[r] = r /\ size[r] = 4
        /\ x # r /\ parent[x] = r
        /\ y # x /\ parent[y] = x

\* the sum of one total over all addresses of a mint bucket
RECURSIVE SumOver(_, _, _)
SumOver(bucket, addresses, field) ==
    IF addresses = {} THEN 0
    ELSE LET a == CHOOSE x \in addresses : TRUE
         IN  bucket.val[a][field] + SumOver(bucket, addresses \ {a}, field)

RECURSIVE TotalAmount(_)
TotalAmount(ts) == IF ts = <<>> THEN 0 ELSE Head(ts).amount + TotalAmount(Tail(ts))

\* C28: flow conservation: after the mint-aware aggregate_balances has folded
\* the transfers, for every mint the sum of sent over all addresses equals the
\* sum of received over all addresses, and both equal the sum of the amounts
\* of the transfers of that mint; a self-transfer counts on both sides.
C28_FlowConservation ==
    \A mint \in DOMAIN aggregates.val :
        LET bucket == aggregates.val[mint]
        IN  /\ SumOver(bucket, DOMAIN bucket.val, "sent")
                   = TotalAmount(OfMint(transfers, mint))
            /\ SumOver(bucket, DOMAIN bucket.val, "received")
                   = TotalAmount(OfMint(transfers, mint))

\* two mints, a self-transfer among the transfers of one of them
C28_Witness ==
    /\ Len(transfers) = 3
    /\ {"mintA", "mintB"} \subseteq DOMAIN aggregates.val
    /\ \E i \in 1..Len(transfers) :
          /\ transfers[i].source = transfers[i].destination
          /\ transfers[i].mint = "mintA"
    /\ SumOver(aggregates.val["mintA"], DOMAIN aggregates.val["mintA"].val, "sent") = 105

\* an evaluate call has returned
Evaluated == decision # NoValue

\* the improvement of a price over a reference price is at least bound basis
\* points; improvement_bps counts it as 0 over a reference price of 0
ImprovementAtLeast(price, ref, bound) ==
    IF ref = 0 THEN 0 >= bound
    ELSE IF ref > 0 THEN (price - ref) * 10000 >= bound * ref
    ELSE (price - ref) * 10000 <= bound * ref

\* C25: evaluate selects a quote with the greatest out_amount and returns
\* execute=True with that quote's aggregator if and only if its slippage_bps
\* is at most max_slippage_bps, its out_amount is not below min_out_amount
\* (when set) and its improvement over the reference price is at least
\* min_improvement_bps; when only the improvement check fails it returns
\* execute=False with the reason "improvement below threshold".
C25_ExecutesIffAllChecksPass ==
    (Evaluated /\ decision.quotes # <<>>) =>
        LET d == decision.result
            quote == d.selected_quote
            quotes == decision.quotes
            slippage_ok == quote.slippage_bps <= strategy_config.max_slippage_bps
            floor_ok == \/ strategy_config.min_out_amount = NoAmountFloor
                        \/ quote.out_amount >= strategy_config.min_out_amount
            improvement_ok == ImprovementAtLeast(quote.price, decision.reference_before,
                                                 strategy_config.min_improvement_bps)
        IN  /\ \E i \in 1..Len(quotes) : quotes[i] = quote
            /\ \A i \in 1..Len(quotes) : quotes[i].out_amount <= quote.out_amount
            /\ d.execute <=> (slippage_ok /\ floor_ok /\ improvement_ok)
            /\ d.execute => d.aggregator = quote.aggregator
            /\ (slippage_ok /\ floor_ok /\ ~improvement_ok) =>
                   (~d.execute /\ d.reason = "improvement below threshold")

\* the first test: reference 1.00, threshold 50, quotes of 110 and 108, the
\* Jupiter quote is executed
C25_Witness ==
    /\ Evaluated
    /\ decision.quotes = <<Quote("jupiter", 100, 110, 75, 110), Quote("orca", 100, 108, 75, 108)>>
    /\ decision.reference_before = 100
    /\ strategy_config.min_improvement_bps = 50
    /\ decision.result.execute
    /\ decision.result.aggregator = "jupiter"

\* the second test: threshold 200, a quote at 1.01 is rejected
C25_WitnessRejected ==
    /\ Evaluated
    /\ decision.quotes = <<Quote("jupiter", 100, 101, 50, 101)>>
    /\ decision.reference_before = 100
    /\ strategy_config.min_improvement_bps = 200
    /\ ~decision.result.execute
    /\ decision.result.reason = "improvement below threshold"

\* C29: across evaluate calls the reference price changes only in a call that
\* returns execute=True, and after such a call it is the selected quote's
\* price; a call that returns execute=False leaves it unchanged.
C29_ReferencePriceFrame ==
    [][/\ reference_price' # reference_price =>
              (decision' # NoValue /\ decision'.result.execute)
       /\ (decision' # NoValue /\ decision'.result.execute) =>
              reference_price' = decision'.result.selected_quote.price
       /\ (decision' # NoValue /\ ~decision'.result.execute) =>
              reference_price' = reference_price]_vars

\* an executing call moved the reference price away from the configured one,
\* to the price of the selected quote
C29_Witness ==
    /\ Evaluated
    /\ decision.result.execute
    /\ decision.reference_before # decision.result.selected_quote.price
    /\ reference_price = decision.result.selected_quote.price
    /\ reference_price # strategy_config.reference_price

\* a rejecting call after an executing one left the moved reference price
C29_WitnessRejected ==
    /\ Evaluated
    /\ ~decision.result.execute
    /\ decision.result.reason = "improvement below threshold"
    /\ reference_price = decision.reference_before
    /\ reference_price # strategy_config.reference_price

\* the response holds an amount that parses
ValidResponse(response, pair_config) ==
    /\ response.type = "object"
    /\ response.amount # ""
    /\ ~int(response.amount).raised
    /\ pair_config.amount_in # 0

\* the aggregators of the quotes fetch_quotes is to return
ExpectedAggregators(jupiter_resp, orca_resp, pair_config) ==
    (IF ValidResponse(jupiter_resp, pair_config) THEN <<"jupiter">> ELSE <<>>)
        \o (IF ValidResponse(orca_resp, pair_config) THEN <<"orca">> ELSE <<>>)

\* C26: fetch_quotes skips invalid responses: a request failure or an
\* unparseable response from one aggregator never raises and never keeps the
\* other aggregator's quote from being returned; the result holds exactly the
\* quotes parsed from the valid responses, Jupiter's before Orca's, and is
\* empty when both fail.
C26_InvalidResponsesSkipped ==
    ret # NoValue =>
        /\ ret.raised = ""
        /\ [i \in 1..Len(ret.quotes) |-> ret.quotes[i].aggregator]
               = ExpectedAggregators(arg.jupiter, arg.orca, arg.pair_config)
        /\ \A i \in 1..Len(ret.quotes) :
              ret.quotes[i].out_amount =
                  int((IF ret.quotes[i].aggregator = "jupiter"
                       THEN arg.jupiter ELSE arg.orca).amount).value

====
